---- MODULE Spec2Model ----
(***************************************************************************)
(* Model of the persistence service of src/services/database.ts            *)
(* (class DatabaseService over expo-sqlite): the store handle, the schema  *)
(* created by initialize(), the CRUD operations over fishing_trips,        *)
(* catches and locations, the ordered and paginated reads, and the trip    *)
(* and species statistics; with the trip form of src/app/new-trip.tsx       *)
(* that writes the trips.                                                  *)
(***************************************************************************)
EXTENDS Integers, Sequences, FiniteSets, TLC

VARIABLES
    db,           \* DatabaseService.db: 0 is null, n > 0 is the n-th opened handle
    initPc,       \* the initialize() calls made so far, in call order: the await each
                  \* is at, "settled" once it has resolved or rejected
    initDone,     \* TRUE once some initialize() call has resolved successfully
    schema,       \* names of the tables (and "indexes") that exist in fishlog.db
    foreignKeys,  \* whether the connection enforces FOREIGN KEY clauses
    store,        \* table name -> set of rows (a row is a function column -> value)
    seq,          \* table name -> AUTOINCREMENT high-water mark (sqlite_sequence)
    clock,        \* the wall clock (Date.now()), in ticks
    inits,        \* number of initialize() calls started so far
    calls,        \* number of create/update/delete and getTripStats calls issued so far
    last,         \* outcome of the most recent service call
    hasPermission, \* LocationService.hasPermission
    located,      \* outcome of the most recent location service call to settle
    locating,     \* the location service calls in flight, in call order: for each
                  \* the await it is at and the value its last await resolved with
    locates,      \* number of location service calls made
    watching,     \* number of live watchPositionAsync subscriptions
    tripStats     \* the getTripStats() calls in flight, in call order: for each the
                  \* await it is at, the rows its queries have returned, the stores
                  \* that existed during it

vars == <<db, initPc, initDone, schema, foreignKeys, store, seq, clock, inits, calls, last,
          hasPermission, located, locating, locates, watching, tripStats>>

\* The state of the database service and that of the location service.
databaseVars == <<db, initPc, initDone, schema, foreignKeys, store, seq, clock, inits, calls, last,
                  tripStats>>
locationVars == <<hasPermission, located, locating, locates, watching>>

(***************************************************************************)
(* Bounds of the model.                                                    *)
(***************************************************************************)
MaxCalls == 3
MaxClock == 2
MaxInits == 2
MaxPage == 3      \* largest limit and offset passed to a paginated read
MaxLocating == 2  \* location service calls made

(***************************************************************************)
(* JavaScript / SQLite values.  Every value has the same shape so that any *)
(* two values can be compared: a tag, a number and a string.               *)
(***************************************************************************)
Undefined == [t |-> "undefined", n |-> 0, s |-> ""]
Null == [t |-> "null", n |-> 0, s |-> ""]
Num(x) == [t |-> "number", n |-> x, s |-> ""]
Str(x) == [t |-> "string", n |-> 0, s |-> x]
Bool(b) == [t |-> "boolean", n |-> IF b THEN 1 ELSE 0, s |-> ""]

\* JavaScript truthiness: undefined, null, 0, "" and false are falsy.
Truthy(v) ==
    CASE v.t = "number" -> v.n # 0
      [] v.t = "string" -> v.s # ""
      [] v.t = "boolean" -> v.n = 1
      [] OTHER -> FALSE

\* The expression `x || null`.
OrNull(v) == IF Truthy(v) THEN v ELSE Null

\* The expression `x ? 1 : 0`.
OneOrZero(v) == IF Truthy(v) THEN Num(1) ELSE Num(0)

\* A bound statement parameter as SQLite receives it: undefined binds as NULL.
Bind(v) == IF v.t = "undefined" THEN Null ELSE v

(***************************************************************************)
(* Schema: the CREATE TABLE statements of createTables().                  *)
(***************************************************************************)
NoHandle == 0
NotInitialized == "Database not initialized"
NoSuchTable == "no such table"
NotNullFailed == "NOT NULL constraint failed"
ForeignKeyFailed == "FOREIGN KEY constraint failed"

TripsTable == "fishing_trips"
CatchesTable == "catches"
LocationsTable == "locations"
TableNames == {TripsTable, CatchesTable, LocationsTable}

TripCols == {"id", "date", "startTime", "endTime", "locationName", "latitude",
             "longitude", "weather", "temperature", "notes", "createdAt", "updatedAt"}
TripNotNull == {"date", "startTime", "locationName", "createdAt", "updatedAt"}

CatchCols == {"id", "tripId", "species", "length", "weight", "bait", "lure", "method",
              "time", "photoUri", "notes", "released", "createdAt", "updatedAt"}
CatchNotNull == {"tripId", "species", "time", "released", "createdAt", "updatedAt"}

LocationCols == {"id", "name", "latitude", "longitude", "description", "isFavorite",
                 "createdAt", "updatedAt"}
LocationNotNull == {"name", "latitude", "longitude", "isFavorite", "createdAt", "updatedAt"}

Cols(table) ==
    CASE table = TripsTable -> TripCols
      [] table = CatchesTable -> CatchCols
      [] OTHER -> LocationCols

NotNullCols(table) ==
    CASE table = TripsTable -> TripNotNull
      [] table = CatchesTable -> CatchNotNull
      [] OTHER -> LocationNotNull

EmptyStore == [t \in TableNames |-> {}]
ZeroSeq == [t \in TableNames |-> 0]

(***************************************************************************)
(* Outcome of a service call: resolved (ok) with a returned id (0 when the *)
(* call returns nothing), or rejected with an error.                       *)
(***************************************************************************)
NoCall == [op |-> "none", ok |-> TRUE, err |-> "", ret |-> 0]
Resolved(op, ret) == [op |-> op, ok |-> TRUE, err |-> "", ret |-> ret]
Rejected(op, err) == [op |-> op, ok |-> FALSE, err |-> err, ret |-> 0]

(***************************************************************************)
(* SQLite statements.                                                      *)
(***************************************************************************)
RowIds(table) == {r["id"].n : r \in store[table]}

\* The error of an INSERT into tables declared without NOT NULL columns.
InsertErrorWithoutNotNull(table, vals) ==
    IF table \notin schema THEN NoSuchTable
    ELSE IF /\ table = CatchesTable
            /\ foreignKeys
            /\ vals["tripId"].n \notin RowIds(TripsTable) THEN ForeignKeyFailed
    ELSE ""

\* The error an INSERT of `vals` (every column but id) into `table` raises, "" if none.
InsertError(table, vals) ==
    IF table \notin schema THEN NoSuchTable
    ELSE IF \E c \in NotNullCols(table) : vals[c].t = "null" THEN NotNullFailed
    ELSE IF /\ table = CatchesTable
            /\ foreignKeys
            /\ vals["tripId"].n \notin RowIds(TripsTable) THEN ForeignKeyFailed
    ELSE ""

\* The rowid of a table declared without AUTOINCREMENT: one more than the largest
\* rowid it holds now.
NextRowIdReused(table) ==
    LET ids == RowIds(table) \cup {0}
    IN  (CHOOSE m \in ids : \A i \in ids : i <= m) + 1

\* The rowid an AUTOINCREMENT table gives the next inserted row: one more than
\* the largest rowid it has ever held.
NextRowId(table) == seq[table] + 1

\* The row an INSERT stores.
InsertedRow(table, vals) ==
    [c \in Cols(table) |-> IF c = "id" THEN Num(NextRowId(table)) ELSE vals[c]]

(***************************************************************************)
(* Statement parameters built by the service methods.                      *)
(***************************************************************************)
\* createTrip: the VALUES list, by column.
createTripParams(trip, now) ==
    [c \in TripCols \ {"id"} |->
        CASE c \in {"date", "startTime", "locationName"} -> Bind(trip[c])
          [] c \in {"createdAt", "updatedAt"} -> now
          [] OTHER -> OrNull(trip[c])]

\* createCatch: the VALUES list, by column.
createCatchParams(catch_, now) ==
    [c \in CatchCols \ {"id"} |->
        CASE c \in {"tripId", "species", "time"} -> Bind(catch_[c])
          [] c = "released" -> OneOrZero(catch_[c])
          [] c \in {"createdAt", "updatedAt"} -> now
          [] OTHER -> OrNull(catch_[c])]

\* createLocation: the VALUES list, by column.
createLocationParams(location, now) ==
    [c \in LocationCols \ {"id"} |->
        CASE c \in {"name", "latitude", "longitude"} -> Bind(location[c])
          [] c = "description" -> OrNull(location[c])
          [] c = "isFavorite" -> OneOrZero(location[c])
          [] OTHER -> now]

\* updateTrip with every nullable column assigned, an absent field as NULL.
updateTripSetsAllColumns(updates, now) ==
    LET cols == {c \in {"date", "startTime", "locationName"} : Truthy(updates[c])}
                \cup {"endTime", "latitude", "longitude", "weather", "temperature", "notes"}
                \cup {"updatedAt"}
    IN  [c \in cols |-> IF c = "updatedAt" THEN now ELSE updates[c]]

\* updateTrip with every field tested for truthiness.
updateTripSetsTruthy(updates, now) ==
    LET cols == {c \in TripCols \ {"id", "createdAt", "updatedAt"} : Truthy(updates[c])}
                \cup {"updatedAt"}
    IN  [c \in cols |-> IF c = "updatedAt" THEN now ELSE updates[c]]

\* updateTrip with updated_at assigned only when another column is.
updateTripSetsStale(updates, now) ==
    LET data == {c \in {"date", "startTime", "locationName"} : Truthy(updates[c])}
                \cup {c \in {"endTime", "latitude", "longitude", "weather",
                              "temperature", "notes"} : updates[c] # Undefined}
        cols == IF data = {} THEN {} ELSE data \cup {"updatedAt"}
    IN  [c \in cols |-> IF c = "updatedAt" THEN now ELSE updates[c]]

\* updateTrip: the SET list, as a function from the columns assigned to their values.
\* date, startTime and locationName are tested for truthiness, the other data
\* fields for `!== undefined`; updated_at is always assigned.
updateTripSets(updates, now) ==
    LET cols == {c \in {"date", "startTime", "locationName"} : Truthy(updates[c])}
                \cup {c \in {"endTime", "latitude", "longitude", "weather",
                              "temperature", "notes"} : updates[c] # Undefined}
                \cup {"updatedAt"}
    IN  [c \in cols |-> IF c = "updatedAt" THEN now ELSE updates[c]]

\* updateCatch: the SET list.  species and time are tested for truthiness, the
\* other data fields for `!== undefined`; released is written as 1 or 0.
updateCatchSets(updates, now) ==
    LET cols == {c \in {"species", "time"} : Truthy(updates[c])}
                \cup {c \in {"length", "weight", "bait", "lure", "method", "photoUri",
                              "notes", "released"} : updates[c] # Undefined}
                \cup {"updatedAt"}
    IN  [c \in cols |->
            CASE c = "updatedAt" -> now
              [] c = "released" -> OneOrZero(updates[c])
              [] OTHER -> updates[c]]

(***************************************************************************)
(* UPDATE and DELETE statements.                                           *)
(***************************************************************************)
\* The row `r` after `UPDATE ... SET sets`.
UpdatedRow(r, sets) == [c \in DOMAIN r |-> IF c \in DOMAIN sets THEN Bind(sets[c]) ELSE r[c]]

\* The error `UPDATE table SET sets WHERE id = ?` raises, "" if none.
UpdateError(table, sets, id) ==
    IF table \notin schema THEN NoSuchTable
    ELSE IF /\ id \in RowIds(table)
            /\ \E c \in DOMAIN sets \cap NotNullCols(table) : Bind(sets[c]).t = "null"
         THEN NotNullFailed
    ELSE ""

\* The rows of `table` after an update that inserts the row when no row has the id.
RowsAfterUpsert(table, sets, id) ==
    IF id \in RowIds(table)
    THEN {IF r["id"].n = id THEN UpdatedRow(r, sets) ELSE r : r \in store[table]}
    ELSE store[table] \cup
           {[c \in Cols(table) |->
                IF c = "id" THEN Num(id)
                ELSE IF c \in DOMAIN sets THEN Bind(sets[c]) ELSE Null]}

\* The rows of `table` after `UPDATE table SET sets WHERE id = ?`.
RowsAfterUpdate(table, sets, id) ==
    {IF r["id"].n = id THEN UpdatedRow(r, sets) ELSE r : r \in store[table]}

\* The store after `DELETE FROM fishing_trips WHERE id = ?`: with foreign keys
\* enforced, ON DELETE CASCADE removes the catches of the trip as well.
StoreAfterDeleteTrip(id) ==
    [t \in TableNames |->
        CASE t = TripsTable -> {r \in store[t] : r["id"].n # id}
          [] t = CatchesTable ->
                IF foreignKeys /\ id \in RowIds(TripsTable)
                THEN {r \in store[t] : r["tripId"].n # id}
                ELSE store[t]
          [] OTHER -> store[t]]

\* The store after `DELETE FROM catches WHERE id = ?`.
StoreAfterDeleteCatch(id) ==
    [store EXCEPT ![CatchesTable] = {r \in @ : r["id"].n # id}]

(***************************************************************************)
(* Reads.                                                                  *)
(***************************************************************************)
\* The first row of `rows` when none has that id (a query that falls back to
\* any row), or null when there is no row at all.
RowWithIdOrAny(rows, id) ==
    IF rows = {} THEN Null
    ELSE CHOOSE r \in rows : r["id"].n = id \/ (\A other \in rows : other["id"].n # id)

\* The row of `rows` with that id, or null (getFirstAsync ... WHERE id = ?).
RowWithId(rows, id) ==
    IF \E r \in rows : r["id"].n = id
    THEN CHOOSE r \in rows : r["id"].n = id
    ELSE Null

\* getTripById: the trip with that id, or null.
getTripById(id) == RowWithId(store[TripsTable], id)

\* The rows of `rows` selected by `WHERE trip_id = ?` (getCatchesByTripId).
CatchesWhereTrip(rows, tripId) == {r \in rows : r["tripId"].n = tripId}

(***************************************************************************)
(* ORDER BY.  TEXT columns compare bytewise (the BINARY collation), NULL    *)
(* sorts before numbers and numbers before TEXT.  A created_at value is    *)
(* the clock reading that stands for an ISO-8601 string of fixed length.   *)
(***************************************************************************)
\* The texts of the model in bytewise order (space < digits < capitals < small letters).
TextOrder ==
    <<"", "06:00 AM", "06:00 PM", "07:00", "08:00", "08:00 AM", "09:00", "17:00",
      "2024-05-01", "2024-05-02", "Bass", "Dock", "Lake", "Pier", "Pike", "Trout",
      "big", "calm", "cast", "file://a.jpg", "spinner", "sunny", "windy", "worm">>

TextRank(s) == CHOOSE i \in DOMAIN TextOrder : TextOrder[i] = s

StorageClass(v) ==
    CASE v.t = "null" -> 0
      [] v.t = "number" -> 1
      [] OTHER -> 2

\* a < b in SQLite's ordering of values.
SqlLess(a, b) ==
    IF StorageClass(a) # StorageClass(b) THEN StorageClass(a) < StorageClass(b)
    ELSE IF a.t = "number" THEN a.n < b.n
    ELSE IF a.t = "string" THEN TextRank(a.s) < TextRank(b.s)
    ELSE FALSE

\* Row a sorts strictly before row b under the ORDER BY terms (column, direction).
RECURSIVE SortsBefore(_, _, _)
SortsBefore(a, b, terms) ==
    IF terms = <<>> THEN FALSE
    ELSE LET k == Head(terms)
         IN  IF a[k.col] = b[k.col] THEN SortsBefore(a, b, Tail(terms))
             ELSE IF k.desc THEN SqlLess(b[k.col], a[k.col])
             ELSE SqlLess(a[k.col], b[k.col])

\* The sorter takes the rows in the order the scan delivers them; rows that
\* compare equal stay in that order.
RECURSIVE InsertSorted(_, _, _)
InsertSorted(sorted, r, terms) ==
    IF sorted = <<>> THEN <<r>>
    ELSE IF SortsBefore(r, Head(sorted), terms) THEN <<r>> \o sorted
    ELSE <<Head(sorted)>> \o InsertSorted(Tail(sorted), r, terms)

RECURSIVE OrderBy(_, _)
OrderBy(scan, terms) ==
    IF scan = <<>> THEN <<>>
    ELSE InsertSorted(OrderBy(SubSeq(scan, 1, Len(scan) - 1), terms), scan[Len(scan)], terms)

\* The orders in which a scan can deliver a set of rows.  SQLite does not fix
\* it (it depends on the index the query plan walks), and with it the order of
\* rows that compare equal under ORDER BY.
RECURSIVE Scans(_)
Scans(rows) ==
    IF rows = {} THEN {<<>>}
    ELSE UNION {{<<r>> \o rest : rest \in Scans(rows \ {r})} : r \in rows}

\* `LIMIT limit OFFSET offset`: a negative limit is no limit, a negative
\* offset is 0.
LimitOffset(list, limit, offset) ==
    LET skip == IF offset < 0 THEN 0 ELSE offset
        upto == IF limit < 0 \/ skip + limit > Len(list) THEN Len(list) ELSE skip + limit
    IN  IF skip >= upto THEN <<>> ELSE SubSeq(list, skip + 1, upto)

\* Pagination with LIMIT alone: the offset argument never reaches the query.
PagedIgnoringOffset(list, limit, offset) ==
    IF Truthy(limit) THEN LimitOffset(list, limit.n, 0) ELSE list

\* Pagination that passes every limit given, 0 included, to LIMIT.
PagedWhenLimitGiven(list, limit, offset) ==
    IF limit # Undefined
    THEN LimitOffset(list, limit.n, IF Truthy(offset) THEN offset.n ELSE 0)
    ELSE list

\* `if (limit) { LIMIT; if (offset) { OFFSET } }` of getTrips and getAllCatches.
Paged(list, limit, offset) ==
    IF Truthy(limit)
    THEN LimitOffset(list, limit.n, IF Truthy(offset) THEN offset.n ELSE 0)
    ELSE list

\* getTrips(limit?, offset?) when the scan of fishing_trips delivers `scan`.
getTripsOrderBy == <<[col |-> "date", desc |-> TRUE], [col |-> "startTime", desc |-> TRUE]>>
getTrips(scan, limit, offset) == Paged(OrderBy(scan, getTripsOrderBy), limit, offset)

\* The result row of a catch as SQLite returns it, released left as stored.
ReleasedAsStored(row) == row

\* The result row of a catch: `released: row.released === 1`.
ReleasedAsBoolean(row) == [row EXCEPT !["released"] = Bool(@ = Num(1))]

\* getCatchesByTripId ordered by created_at, newest first.
getCatchesByCreatedAt == <<[col |-> "createdAt", desc |-> TRUE]>>

\* getCatchesByTripId(tripId) when the scan of catches delivers `scan`.
getCatchesByTripIdOrderBy == <<[col |-> "time", desc |-> FALSE]>>
getCatchesByTripId(scan, tripId) ==
    LET Selected(r) == r \in CatchesWhereTrip({r}, tripId)
        rows == OrderBy(SelectSeq(scan, Selected), getCatchesByTripIdOrderBy)
    IN  [i \in DOMAIN rows |-> ReleasedAsBoolean(rows[i])]

\* getAllCatches ordered by the catches' own time field.
getAllCatchesByTime == <<[col |-> "time", desc |-> FALSE]>>

\* getAllCatches(limit?, offset?) when the scan of catches delivers `scan`.
getAllCatchesOrderBy == <<[col |-> "createdAt", desc |-> TRUE]>>
getAllCatches(scan, limit, offset) ==
    LET rows == Paged(OrderBy(scan, getAllCatchesOrderBy), limit, offset)
    IN  [i \in DOMAIN rows |-> ReleasedAsBoolean(rows[i])]

\* The result row of a location: `isFavorite: row.isFavorite === 1`.
IsFavoriteAsBoolean(row) == [row EXCEPT !["isFavorite"] = Bool(@ = Num(1))]

\* getLocations ordered by name, last name first.
getLocationsByNameDescending == <<[col |-> "name", desc |-> TRUE]>>

\* getLocations(favoritesOnly = false) when the scan of locations delivers
\* `scan`: `WHERE is_favorite = 1` if favoritesOnly is truthy.
getLocationsOrderBy == <<[col |-> "name", desc |-> FALSE]>>
getLocations(scan, favoritesOnly) ==
    LET only == IF favoritesOnly = Undefined THEN Bool(FALSE) ELSE favoritesOnly
        Selected(r) == Truthy(only) => r["isFavorite"] = Num(1)
        rows == OrderBy(SelectSeq(scan, Selected), getLocationsOrderBy)
    IN  [i \in DOMAIN rows |-> IsFavoriteAsBoolean(rows[i])]

(***************************************************************************)
(* Statistics.                                                             *)
(***************************************************************************)
\* `SELECT COUNT(*) as count FROM table`: one row.
CountRowsIn(tables, table) == [count |-> Num(Cardinality(tables[table]))]
CountRows(table) == CountRowsIn(store, table)

\* The elements of a list, each once, in the order of their first occurrence.
RECURSIVE Distinct(_)
Distinct(list) ==
    IF list = <<>> THEN <<>>
    ELSE LET front == Distinct(SubSeq(list, 1, Len(list) - 1))
             x == list[Len(list)]
         IN  IF \E i \in DOMAIN front : front[i] = x THEN front ELSE Append(front, x)

\* The grouping restricted to the catches that name a species.
GroupByNamedSpecies(scan) ==
    LET named == SelectSeq(scan, LAMBDA r : r["species"] # Str(""))
        species == Distinct([i \in DOMAIN named |-> named[i]["species"]])
    IN  [k \in DOMAIN species |->
            [species |-> species[k],
             count |-> Num(Cardinality({i \in DOMAIN named : named[i]["species"] = species[k]}))]]

\* `SELECT species, COUNT(*) as count FROM catches GROUP BY species` when the
\* scan of catches delivers `scan`: one row per species.
GroupBySpecies(scan) ==
    LET species == Distinct([i \in DOMAIN scan |-> scan[i]["species"]])
    IN  [k \in DOMAIN species |->
            [species |-> species[k],
             count |-> Num(Cardinality({i \in DOMAIN scan : scan[i]["species"] = species[k]}))]]

\* getSpeciesStats ordered by count, smallest first.
getSpeciesStatsAscending == <<[col |-> "count", desc |-> FALSE]>>

\* getSpeciesStats().
getSpeciesStatsOrderBy == <<[col |-> "count", desc |-> TRUE]>>
getSpeciesStats(scan) == OrderBy(GroupBySpecies(scan), getSpeciesStatsOrderBy)

\* getFirstAsync: the first row of the result, or null.
FirstRow(list) == IF list = <<>> THEN Null ELSE list[1]

\* The expression `(row as any)?.field`.
OptionalField(row, field) == IF row = Null THEN Undefined ELSE row[field]

\* The expression `x || 0`.
OrZero(v) == IF Truthy(v) THEN v ELSE Num(0)

RECURSIVE Gcd(_, _)
Gcd(a, b) == IF b = 0 THEN a ELSE Gcd(b, a % b)

\* The quotient of two counts with the fraction dropped.
QuotientTruncated(a, b) == [num |-> a \div b, den |-> 1]

\* The JavaScript number a / b for counts a >= 0 and b > 0, which need not be
\* an integer: the fraction in lowest terms.
Quotient(a, b) == [num |-> a \div Gcd(a, b), den |-> b \div Gcd(a, b)]

\* The number 0 as such a fraction.
ZeroQuotient == [num |-> 0, den |-> 1]

\* `SELECT species, COUNT(*) as count FROM catches GROUP BY species ORDER BY
\* count DESC LIMIT 1` through getFirstAsync, when the scan delivers `scan`.
FavoriteSpeciesRow(scan) == FirstRow(LimitOffset(getSpeciesStats(scan), 1, 0))

\* What getTripStats() returns from the rows of its three queries.
getTripStatsReturn(totalTrips, totalCatches, favoriteSpecies) ==
    LET tripsCount == OrZero(OptionalField(totalTrips, "count"))
        catchesCount == OrZero(OptionalField(totalCatches, "count"))
    IN  [totalTrips |-> tripsCount,
         totalCatches |-> catchesCount,
         avgCatchesPerTrip |-> IF tripsCount.n > 0
                               THEN Quotient(catchesCount.n, tripsCount.n)
                               ELSE ZeroQuotient,
         favoriteSpecies |-> OrNull(OptionalField(favoriteSpecies, "species"))]

\* getTripStats() with its three queries answered from the one store `tables`,
\* the scan of its catches delivering `scan`.
TripStatsIn(tables, scan) ==
    getTripStatsReturn(CountRowsIn(tables, TripsTable), CountRowsIn(tables, CatchesTable),
                       FavoriteSpeciesRow(scan))

\* getTripStats() when no other call runs between its queries.
getTripStats(scan) == TripStatsIn(store, scan)

\* A getTripStats() call that has passed the guard and awaits its first
\* query, the store being `tables`.
TripStatsCall(tables) ==
    [pc |-> "totalTrips", totalTrips |-> Null, totalCatches |-> Null, favoriteSpecies |-> Null,
     seen |-> {tables}]

\* A list without its i-th element.
RemoveAt(list, i) == SubSeq(list, 1, i - 1) \o SubSeq(list, i + 1, Len(list))

\* A statement that writes the store runs while getTripStats() calls may be
\* in flight: the store it leaves is one that existed during each of them.
ObservedByTripStats ==
    tripStats' = [call \in DOMAIN tripStats |->
                     [tripStats[call] EXCEPT !.seen = @ \cup {store'}]]

(***************************************************************************)
(* initialize(): `this.db = await openDatabaseAsync(...)`, then             *)
(* createTables(), four execAsync statements.  Each await is one step;     *)
(* the open and each statement may reject (an I/O failure), which rejects  *)
(* initialize() at that point.                                             *)
(***************************************************************************)
\* What an execAsync step of createTables creates.
Creates(pc) ==
    CASE pc = "trips" -> {TripsTable}
      [] pc = "catches" -> {CatchesTable}
      [] pc = "locations" -> {LocationsTable}
      [] OTHER -> {"indexes"}

\* The step after `pc` in initialize(), "settled" after the last.
StepAfter(pc) ==
    CASE pc = "open" -> "trips"
      [] pc = "trips" -> "catches"
      [] pc = "catches" -> "locations"
      [] pc = "locations" -> "indexes"
      [] OTHER -> "settled"

\* The initialize() calls that have not settled yet.
InFlight == {call \in DOMAIN initPc : initPc[call] # "settled"}

\* A caller invokes initialize(); nothing keeps it from doing so while earlier
\* calls are still in flight.
InitializeCall ==
    /\ inits < MaxInits
    /\ initPc' = Append(initPc, "open")
    /\ inits' = inits + 1
    /\ UNCHANGED <<db, initDone, schema, foreignKeys, store, seq, clock, calls, last>>
    /\ UNCHANGED <<locationVars, tripStats>>

\* openDatabaseAsync of a call resolves and its handle is assigned to this.db.
OpenDatabase(call) ==
    /\ initPc[call] = "open"
    /\ db' = call
    /\ initPc' = [initPc EXCEPT ![call] = StepAfter(@)]
    /\ UNCHANGED <<initDone, schema, foreignKeys, store, seq, clock, inits, calls, last>>
    /\ UNCHANGED <<locationVars, tripStats>>

\* openDatabaseAsync rejects: this.db keeps its value and the call rejects.
OpenDatabaseFails(call) ==
    /\ initPc[call] = "open"
    /\ initPc' = [initPc EXCEPT ![call] = "settled"]
    /\ last' = Rejected("initialize", "open failed")
    /\ UNCHANGED <<db, initDone, schema, foreignKeys, store, seq, clock, inits, calls>>
    /\ UNCHANGED <<locationVars, tripStats>>

\* createTables with plain CREATE TABLE / CREATE INDEX statements: a statement
\* whose object exists already raises an error.
CreateTablesStepNoIfNotExists(call) ==
    /\ initPc[call] \in {"trips", "catches", "locations", "indexes"}
    /\ IF initPc[call] = "trips" /\ db = NoHandle
       THEN /\ initPc' = [initPc EXCEPT ![call] = "settled"]
            /\ last' = Rejected("initialize", NotInitialized)
            /\ UNCHANGED <<schema, initDone>>
       ELSE IF Creates(initPc[call]) \subseteq schema
       THEN /\ initPc' = [initPc EXCEPT ![call] = "settled"]
            /\ last' = Rejected("initialize", "already exists")
            /\ UNCHANGED <<schema, initDone>>
       ELSE /\ schema' = schema \cup Creates(initPc[call])
            /\ initPc' = [initPc EXCEPT ![call] = StepAfter(@)]
            /\ initDone' = (initDone \/ initPc[call] = "indexes")
            /\ last' = IF initPc[call] = "indexes" THEN Resolved("initialize", 0) ELSE last
    /\ UNCHANGED <<db, foreignKeys, store, seq, clock, inits, calls>>
    /\ UNCHANGED <<locationVars, tripStats>>

\* One execAsync of a call's createTables resolves (CREATE ... IF NOT EXISTS),
\* on whichever handle this.db holds by then; after the last one the call
\* resolves.
CreateTablesStep(call) ==
    /\ initPc[call] \in {"trips", "catches", "locations", "indexes"}
    /\ IF initPc[call] = "trips" /\ db = NoHandle
       THEN /\ initPc' = [initPc EXCEPT ![call] = "settled"]
            /\ last' = Rejected("initialize", NotInitialized)
            /\ UNCHANGED <<schema, initDone>>
       ELSE /\ schema' = schema \cup Creates(initPc[call])
            /\ initPc' = [initPc EXCEPT ![call] = StepAfter(@)]
            /\ initDone' = (initDone \/ initPc[call] = "indexes")
            /\ last' = IF initPc[call] = "indexes" THEN Resolved("initialize", 0) ELSE last
    /\ UNCHANGED <<db, foreignKeys, store, seq, clock, inits, calls>>
    /\ UNCHANGED <<locationVars, tripStats>>

\* One execAsync of a call's createTables rejects: the call rejects, this.db
\* stays set.
CreateTablesStepFails(call) ==
    /\ initPc[call] \in {"trips", "catches", "locations", "indexes"}
    /\ initPc' = [initPc EXCEPT ![call] = "settled"]
    /\ last' = Rejected("initialize", "exec failed")
    /\ UNCHANGED <<db, initDone, schema, foreignKeys, store, seq, clock, inits, calls>>
    /\ UNCHANGED <<locationVars, tripStats>>

\* The wall clock advances.
Tick ==
    /\ clock < MaxClock
    /\ clock' = clock + 1
    /\ UNCHANGED <<db, initPc, initDone, schema, foreignKeys, store, seq, inits, calls, last>>
    /\ UNCHANGED <<locationVars, tripStats>>

(***************************************************************************)
(* Create / update / delete calls.  Each starts with                      *)
(* `if (!this.db) throw new Error('Database not initialized')`.            *)
(***************************************************************************)
\* The frame of every create/update/delete call, and its budget.
WriteCall ==
    /\ calls < MaxCalls
    /\ calls' = calls + 1
    /\ UNCHANGED <<db, initPc, initDone, schema, foreignKeys, clock, inits>>
    /\ UNCHANGED locationVars

\* An INSERT through runAsync; the call returns lastInsertRowId.
InsertInto(op, table, vals) ==
    /\ IF db = NoHandle
       THEN /\ last' = Rejected(op, NotInitialized)
            /\ UNCHANGED <<store, seq>>
       ELSE IF InsertError(table, vals) # ""
       THEN /\ last' = Rejected(op, InsertError(table, vals))
            /\ UNCHANGED <<store, seq>>
       ELSE /\ store' = [store EXCEPT ![table] = @ \cup {InsertedRow(table, vals)}]
            /\ seq' = [seq EXCEPT ![table] = NextRowId(table)]
            /\ last' = Resolved(op, NextRowId(table))
    /\ ObservedByTripStats

\* An UPDATE ... WHERE id = ? through runAsync.
UpdateWhereId(op, table, sets, id) ==
    /\ IF db = NoHandle
       THEN /\ last' = Rejected(op, NotInitialized)
            /\ UNCHANGED store
       ELSE IF UpdateError(table, sets, id) # ""
       THEN /\ last' = Rejected(op, UpdateError(table, sets, id))
            /\ UNCHANGED store
       ELSE /\ store' = [store EXCEPT ![table] = RowsAfterUpdate(table, sets, id)]
            /\ last' = Resolved(op, 0)
    /\ UNCHANGED seq
    /\ ObservedByTripStats

\* A DELETE ... WHERE id = ? through runAsync, leaving the store `after`.
DeleteWhereId(op, table, after) ==
    /\ IF db = NoHandle
       THEN /\ last' = Rejected(op, NotInitialized)
            /\ UNCHANGED store
       ELSE IF table \notin schema
       THEN /\ last' = Rejected(op, NoSuchTable)
            /\ UNCHANGED store
       ELSE /\ store' = after
            /\ last' = Resolved(op, 0)
    /\ UNCHANGED seq
    /\ ObservedByTripStats

CreateTrip(trip) ==
    /\ WriteCall
    /\ InsertInto("createTrip", TripsTable, createTripParams(trip, Num(clock)))

UpdateTrip(id, updates) ==
    /\ WriteCall
    /\ UpdateWhereId("updateTrip", TripsTable, updateTripSets(updates, Num(clock)), id)

DeleteTrip(id) ==
    /\ WriteCall
    /\ DeleteWhereId("deleteTrip", TripsTable, StoreAfterDeleteTrip(id))

CreateCatch(catch_) ==
    /\ WriteCall
    /\ InsertInto("createCatch", CatchesTable, createCatchParams(catch_, Num(clock)))

UpdateCatch(id, updates) ==
    /\ WriteCall
    /\ UpdateWhereId("updateCatch", CatchesTable, updateCatchSets(updates, Num(clock)), id)

DeleteCatch(id) ==
    /\ WriteCall
    /\ DeleteWhereId("deleteCatch", CatchesTable, StoreAfterDeleteCatch(id))

CreateLocation(location) ==
    /\ WriteCall
    /\ InsertInto("createLocation", LocationsTable, createLocationParams(location, Num(clock)))

(***************************************************************************)
(* Read calls: the guard, then one or more SELECTs.  The call is recorded  *)
(* with its outcome; the store is not changed.                             *)
(***************************************************************************)
ReadOps == {"getTrips", "getTripById", "getCatchesByTripId", "getAllCatches",
            "getTripStats", "getSpeciesStats", "getLocations"}

\* The tables a read call selects from.
ReadsFrom(op) ==
    CASE op \in {"getTrips", "getTripById"} -> {TripsTable}
      [] op \in {"getCatchesByTripId", "getAllCatches", "getSpeciesStats"} -> {CatchesTable}
      [] op = "getTripStats" -> {TripsTable, CatchesTable}
      [] OTHER -> {LocationsTable}

\* The outcome of a read call in the current state.
ReadOutcome(op) ==
    IF db = NoHandle THEN Rejected(op, NotInitialized)
    ELSE IF ~(ReadsFrom(op) \subseteq schema) THEN Rejected(op, NoSuchTable)
    ELSE Resolved(op, 0)

\* The read calls with one awaited query: guard and query are one step.
OneQueryReads == ReadOps \ {"getTripStats"}

Read(op) ==
    /\ op \in OneQueryReads
    /\ last' = ReadOutcome(op)
    /\ UNCHANGED <<db, initPc, initDone, schema, foreignKeys, store, seq, clock, inits, calls>>
    /\ UNCHANGED <<locationVars, tripStats>>

(***************************************************************************)
(* getTripStats() await by await: the guard, then three getFirstAsync      *)
(* queries, each awaited before the next is issued, with no transaction    *)
(* around them.  Other calls run between the awaits.                       *)
(***************************************************************************)
\* What a step of getTripStats() leaves alone.
TripStatsFrame ==
    /\ UNCHANGED <<db, initPc, initDone, schema, foreignKeys, store, seq, clock, inits>>
    /\ UNCHANGED locationVars

\* getTripStats() is called, whatever calls are in flight: the guard.
GetTripStatsCall ==
    /\ calls < MaxCalls
    /\ calls' = calls + 1
    /\ IF db = NoHandle
       THEN /\ last' = Rejected("getTripStats", NotInitialized)
            /\ UNCHANGED tripStats
       ELSE /\ tripStats' = Append(tripStats, TripStatsCall(store))
            /\ UNCHANGED last
    /\ TripStatsFrame

\* One awaited query of a getTripStats() call: the call is rejected when the
\* table is missing, and otherwise the row is kept and the call moves to `next`.
TripStatsQuery(call, pc, table, row, next) ==
    /\ tripStats[call].pc = pc
    /\ IF table \notin schema
       THEN /\ last' = Rejected("getTripStats", NoSuchTable)
            /\ tripStats' = RemoveAt(tripStats, call)
       ELSE /\ tripStats' = [tripStats EXCEPT ![call] = [@ EXCEPT ![pc] = row, !.pc = next]]
            /\ UNCHANGED last
    /\ UNCHANGED calls
    /\ TripStatsFrame

\* `SELECT COUNT(*) as count FROM fishing_trips`.
TotalTripsQuery(call) ==
    TripStatsQuery(call, "totalTrips", TripsTable, CountRows(TripsTable), "totalCatches")

\* `SELECT COUNT(*) as count FROM catches`.
TotalCatchesQuery(call) ==
    TripStatsQuery(call, "totalCatches", CatchesTable, CountRows(CatchesTable),
                   "favoriteSpecies")

\* The GROUP BY query, answered from any scan of catches.
FavoriteSpeciesQuery(call) ==
    \E scan \in Scans(store[CatchesTable]) :
        TripStatsQuery(call, "favoriteSpecies", CatchesTable, FavoriteSpeciesRow(scan),
                       "return")

\* The getTripStats() calls whose three queries have been answered.
Returning == {call \in DOMAIN tripStats : tripStats[call].pc = "return"}

\* The object that the return statement of a getTripStats() call builds from
\* the rows of its three queries.
TripStatsValue(call) ==
    getTripStatsReturn(tripStats[call].totalTrips, tripStats[call].totalCatches,
                       tripStats[call].favoriteSpecies)

\* The return statement of a getTripStats() call: the call resolves with
\* TripStatsValue(call).
TripStatsReturn(call) ==
    /\ call \in Returning
    /\ tripStats' = RemoveAt(tripStats, call)
    /\ last' = Resolved("getTripStats", 0)
    /\ UNCHANGED calls
    /\ TripStatsFrame

(***************************************************************************)
(* Inputs of the calls.                                                    *)
(***************************************************************************)
\* createTrip arguments: every optional field truthy; every optional field
\* falsy (0 or ""); only the mandatory fields; date missing.
TripFull ==
    [date |-> Str("2024-05-01"), startTime |-> Str("08:00"), endTime |-> Str("17:00"),
     locationName |-> Str("Lake"), latitude |-> Num(45), longitude |-> Num(7),
     weather |-> Str("sunny"), temperature |-> Num(21), notes |-> Str("calm")]
TripFalsy ==
    [TripFull EXCEPT !["endTime"] = Str(""), !["latitude"] = Num(0), !["longitude"] = Num(0),
                     !["weather"] = Str(""), !["temperature"] = Num(0), !["notes"] = Str("")]
TripBare ==
    [TripFull EXCEPT !["endTime"] = Undefined, !["latitude"] = Undefined,
                     !["longitude"] = Undefined, !["weather"] = Undefined,
                     !["temperature"] = Undefined, !["notes"] = Undefined]
TripNoDate == [TripFull EXCEPT !["date"] = Undefined]

TripNoStartTime == [TripFull EXCEPT !["startTime"] = Undefined]
TripNoLocationName == [TripFull EXCEPT !["locationName"] = Undefined]
TripNullDate == [TripFull EXCEPT !["date"] = Null]

\* updateTrip arguments (Partial<FishingTrip>): a field that is absent is undefined.
NoTripUpdates == [c \in TripCols |-> Undefined]
TripZeroTemp == [NoTripUpdates EXCEPT !["temperature"] = Num(0)]
TripNulls ==
    [NoTripUpdates EXCEPT !["endTime"] = Null, !["latitude"] = Null, !["longitude"] = Null,
                          !["weather"] = Null, !["temperature"] = Null, !["notes"] = Null]
TripEmptyMandatory ==
    [NoTripUpdates EXCEPT !["date"] = Str(""), !["startTime"] = Str(""),
                          !["locationName"] = Str("")]
TripNullMandatory ==
    [NoTripUpdates EXCEPT !["date"] = Null, !["startTime"] = Null, !["locationName"] = Null]
TripMoved ==
    [NoTripUpdates EXCEPT !["date"] = Str("2024-05-02"), !["latitude"] = Num(0),
                          !["notes"] = Str("windy")]
TripIdentity ==
    [NoTripUpdates EXCEPT !["id"] = Num(9), !["createdAt"] = Num(9), !["updatedAt"] = Num(9)]

\* createCatch arguments for a trip id.
CatchFull(tripId) ==
    [tripId |-> Num(tripId), species |-> Str("Bass"), length |-> Num(30), weight |-> Num(2),
     bait |-> Str("worm"), lure |-> Str("spinner"), method |-> Str("cast"),
     time |-> Str("09:00"), photoUri |-> Str("file://a.jpg"), notes |-> Str("big"),
     released |-> Bool(TRUE)]
CatchFalsy(tripId) ==
    [CatchFull(tripId) EXCEPT !["species"] = Str("Trout"), !["length"] = Num(0),
                              !["weight"] = Num(0), !["bait"] = Str(""), !["lure"] = Str(""),
                              !["method"] = Str(""), !["photoUri"] = Str(""),
                              !["notes"] = Str(""), !["released"] = Bool(FALSE)]

\* A catch of another species made earlier in the day and kept.
CatchEarly(tripId) == [CatchFalsy(tripId) EXCEPT !["time"] = Str("07:00")]

\* A catch logged with the species left empty.
CatchUnnamed(tripId) == [CatchFull(tripId) EXCEPT !["species"] = Str("")]

\* updateCatch arguments (Partial<Catch>).
NoCatchUpdates == [c \in CatchCols |-> Undefined]
CatchEmptyMandatory == [NoCatchUpdates EXCEPT !["species"] = Str(""), !["time"] = Str("")]
CatchZeros ==
    [NoCatchUpdates EXCEPT !["length"] = Num(0), !["bait"] = Null, !["released"] = Bool(FALSE)]
CatchRenamed ==
    [NoCatchUpdates EXCEPT !["species"] = Str("Pike"), !["released"] = Bool(TRUE)]
CatchRetimed == [NoCatchUpdates EXCEPT !["time"] = Str("08:00")]
CatchIdentity ==
    [NoCatchUpdates EXCEPT !["id"] = Num(9), !["tripId"] = Num(9), !["createdAt"] = Num(9)]

\* createLocation argument.
LocationPier ==
    [name |-> Str("Pier"), latitude |-> Num(45), longitude |-> Num(7),
     description |-> Str(""), isFavorite |-> Bool(TRUE)]

\* new-trip.tsx formatTime: toLocaleTimeString('en-US', {hour: '2-digit',
\* minute: '2-digit', hour12: true}) of a time of day.
Pad2(n) == IF n < 10 THEN "0" \o ToString(n) ELSE ToString(n)
formatTime(hour, minute) ==
    LET h12 == IF hour % 12 = 0 THEN 12 ELSE hour % 12
    IN  Pad2(h12) \o ":" \o Pad2(minute) \o " " \o (IF hour < 12 THEN "AM" ELSE "PM")

\* new-trip.tsx handleSaveTrip: the tripData of a form with the date, a start
\* time on the hour and the location name filled in.
tripData(date, hour) ==
    [TripBare EXCEPT !["date"] = Str(date), !["startTime"] = Str(formatTime(hour, 0))]

\* Trips saved for 1 May 08:00, 2 May 06:00 and 1 May 18:00.
SavedTrips == {tripData("2024-05-01", 8), tripData("2024-05-02", 6), tripData("2024-05-01", 18)}

LocationDock == [LocationPier EXCEPT !["name"] = Str("Dock"), !["isFavorite"] = Bool(FALSE)]

CoreTrips == {TripFull, TripNoDate}
CoreTripUpdates == {NoTripUpdates, TripMoved}
CoreCatchUpdates == {NoCatchUpdates, CatchRenamed}

AllTrips == {TripFull, TripFalsy, TripBare}
AllTripUpdates == {NoTripUpdates, TripZeroTemp, TripNulls, TripEmptyMandatory, TripMoved,
                   TripIdentity}
AllCatchUpdates == {NoCatchUpdates, CatchEmptyMandatory, CatchZeros, CatchRenamed,
                    CatchIdentity}

\* The ids a caller can name: those the table has assigned, and one it has not.
IdsFor(table) == 1 .. (seq[table] + 1)

(***************************************************************************)
(* The location service of src/services/location.ts over expo-location.    *)
(* Every method is async: a call runs to its first await, and each await   *)
(* hands control back until the awaited answer arrives.  Calls overlap;    *)
(* the provider's answers (permission status, position, addresses,         *)
(* subscription) are inputs.  A method body ends by returning a value or   *)
(* by throwing.                                                            *)
(***************************************************************************)
Return(v) == [threw |-> FALSE, value |-> v]

\* `new Error(message)`.
Error(message) == [t |-> "Error", n |-> 0, s |-> message]
Throw(message) == [threw |-> TRUE, value |-> Error(message)]

\* A rejection with something that is not an Error.
Reject(v) == [threw |-> TRUE, value |-> v]

\* The functions watchPosition returns.
RemoveSubscription == [t |-> "function", n |-> 0, s |-> "subscription.remove()"]
EmptyCleanup == [t |-> "function", n |-> 0, s |-> ""]

NoLocationCall ==
    [op |-> "none", args |-> <<>>, threw |-> FALSE, value |-> Null, error |-> Null,
     ended |-> "none"]

\* A method body without its try/catch: what the body throws reaches the caller.
TryCatchRethrows(outcome, fallback) == outcome

\* `try { body } catch (error) { console.error(...); return fallback; }`
TryCatch(outcome, fallback) == IF outcome.threw THEN Return(fallback) ELSE outcome

\* The expression `x || undefined`.
OrUndefined(v) == IF Truthy(v) THEN v ELSE Undefined

\* What requestForegroundPermissionsAsync and getForegroundPermissionsAsync
\* answer: a status, or they throw.
PermissionAnswers == {"granted", "denied", "undetermined", "throws"}

\* The body of requestPermissions() and of checkLocationPermission() from its
\* await on: the new hasPermission and the value returned.
requestPermissions(has, answer) ==
    IF answer = "throws"
    THEN [hasPermission |-> has, returns |-> FALSE]
    ELSE [hasPermission |-> answer = "granted", returns |-> answer = "granted"]

\* What getCurrentPositionAsync answers, and what the provider hands to a
\* watchPositionAsync callback: it throws (timeout, provider off) or resolves
\* with coordinates.
PositionCoords ==
    {[latitude |-> Num(45), longitude |-> Num(-122), accuracy |-> Num(5), altitude |-> alt,
      heading |-> Null, speed |-> Num(0)] : alt \in {Null, Num(0), Num(120)}}
PositionFails == [ok |-> FALSE, coords |-> Null]
PositionAnswers == {PositionFails} \cup {[ok |-> TRUE, coords |-> c] : c \in PositionCoords}

\* The LocationData built from the coordinates.
LocationDataOf(coords) ==
    [latitude |-> coords.latitude, longitude |-> coords.longitude,
     accuracy |-> coords.accuracy, altitude |-> OrUndefined(coords.altitude),
     heading |-> OrUndefined(coords.heading), speed |-> OrUndefined(coords.speed)]

\* getCurrentLocation() from its await of getCurrentPositionAsync on.
getCurrentLocation(position) ==
    IF ~position.ok THEN Throw("getCurrentPositionAsync failed")
    ELSE Return(LocationDataOf(position.coords))

\* What reverseGeocodeAsync answers: it throws, or resolves with a list of
\* addresses whose fields are strings (possibly empty) or null.
AddressFields == {"street", "city", "region", "postalCode", "country", "name"}
Address(name, street, city, region) ==
    [street |-> street, city |-> city, region |-> region, postalCode |-> Null,
     country |-> Str("NO"), name |-> name]
GeocodedAddresses ==
    {Address(Null, Null, Str(""), Null),
     Address(Str("Pier 7"), Str("Havnegata"), Str("Oslo"), Null),
     Address(Str(""), Str("Havnegata"), Str("Oslo"), Str("Viken")),
     Address(Null, Null, Str("Oslo"), Null),
     Address(Null, Str("Havnegata"), Str(""), Null),
     Address(Null, Null, Null, Str("Viken"))}
GeocodeFails == [ok |-> FALSE, addresses |-> <<>>]
GeocodeAnswers ==
    {GeocodeFails, [ok |-> TRUE, addresses |-> <<>>]}
      \cup {[ok |-> TRUE, addresses |-> <<a>>] : a \in GeocodedAddresses}

\* The LocationAddress built from the first address.
AddressOf(address) == [f \in AddressFields |-> OrUndefined(address[f])]

\* reverseGeocode(latitude, longitude) from its await of reverseGeocodeAsync on.
reverseGeocode(geocode) ==
    IF ~geocode.ok THEN Throw("reverseGeocodeAsync failed")
    ELSE IF Len(geocode.addresses) > 0 THEN Return(AddressOf(geocode.addresses[1]))
    ELSE Return(Null)

\* `value.toFixed(6)` of a whole number of degrees.
ToFixed6(n) == ToString(n) \o ".000000"

\* `parts.join(', ')`
RECURSIVE Join(_)
Join(parts) ==
    IF Len(parts) = 0 THEN ""
    ELSE IF Len(parts) = 1 THEN parts[1]
    ELSE parts[1] \o ", " \o Join(Tail(parts))

\* The coordinate text getLocationName falls back to.
CoordinateName(latitude, longitude) == ToFixed6(latitude) \o ", " \o ToFixed6(longitude)

\* The parts getLocationName collects from an address.
NameParts(address) ==
    (IF Truthy(address["name"]) THEN <<address["name"].s>>
     ELSE (IF Truthy(address["street"]) THEN <<address["street"].s>> ELSE <<>>)
            \o (IF Truthy(address["city"]) THEN <<address["city"].s>> ELSE <<>>))
      \o (IF Truthy(address["region"]) THEN <<address["region"].s>> ELSE <<>>)

\* getLocationName(latitude, longitude) from its await of reverseGeocode on:
\* the await is outside any try, so what reverseGeocode throws would reach
\* the caller.
getLocationName(latitude, longitude, address) ==
    IF address.threw THEN address
    ELSE IF address.value = Null THEN Return(Str(CoordinateName(latitude, longitude)))
    ELSE Return(Str(IF Len(NameParts(address.value)) > 0
                    THEN Join(NameParts(address.value))
                    ELSE CoordinateName(latitude, longitude)))

\* What watchPositionAsync answers: a subscription, or it rejects with an
\* Error or with something else.
WatchAnswers == {"subscription", "Error", "rejects"}

\* watchPosition(callback, errorCallback) from its await of
\* watchPositionAsync on.
watchPosition(watch) ==
    CASE watch = "subscription" -> Return(RemoveSubscription)
      [] watch = "Error" -> Throw("watchPositionAsync failed")
      [] OTHER -> Reject(Str("watchPositionAsync failed"))

\* `error instanceof Error ? error : new Error('Unknown error')`
ErrorOf(thrown) == IF thrown.t = "Error" THEN thrown ELSE Error("Unknown error")

\* What errorCallback is called with in the catch of watchPosition: nothing
\* when the body did not throw or no errorCallback was given.
ErrorCallback(errorCallback, outcome) ==
    IF outcome.threw /\ errorCallback THEN ErrorOf(outcome.value) ELSE Null

\* The latitudes and longitudes, in whole degrees, names are asked for.
Latitudes == {45, -33}
Longitudes == {-122}

\* The provider call each method awaits once permission is granted.
Provider(op) ==
    CASE op = "getCurrentLocation" -> "getCurrentPositionAsync"
      [] op \in {"reverseGeocode", "getLocationName"} -> "reverseGeocodeAsync"
      [] op = "watchPosition" -> "watchPositionAsync"

\* `if (!this.hasPermission) { ... await this.requestPermissions() ... }`: the
\* first await of a call that saw hasPermission = has.
FirstAwait(has, op) == IF has THEN Provider(op) ELSE "requestForegroundPermissionsAsync"

\* A location call is made and runs to its first await.
Locate(op, args, pc) ==
    /\ locates < MaxLocating
    /\ locates' = locates + 1
    /\ locating' = Append(locating, [op |-> op, args |-> args, pc |-> pc,
                                      awaited |-> Return(Null), ended |-> "none"])
    /\ UNCHANGED <<hasPermission, located, watching>>
    /\ UNCHANGED databaseVars

\* The call resolves or rejects.
Settle(call, outcome, error, ended) ==
    /\ locating' = RemoveAt(locating, call)
    /\ located' = [op |-> locating[call].op, args |-> locating[call].args,
                   threw |-> outcome.threw, value |-> outcome.value, error |-> error,
                   ended |-> ended]

\* The call goes on to its next await.
Await(call, pc, awaited, ended) ==
    /\ locating' = [locating EXCEPT ![call] =
                       [@ EXCEPT !.pc = pc, !.awaited = awaited, !.ended = ended]]
    /\ UNCHANGED located

\* The try block of the method ends with `outcome`: the catch turns what it
\* threw into the method's fallback.  A reverseGeocode() made by
\* getLocationName() resolves into the await of getLocationName().
EndOfTry(call, outcome, ended) ==
    CASE locating[call].op = "getLocationName" ->
            Await(call, "reverseGeocode", TryCatch(outcome, Null), ended)
      [] locating[call].op = "watchPosition" ->
            Settle(call, TryCatch(outcome, EmptyCleanup),
                   ErrorCallback(locating[call].args[1], outcome), ended)
      [] OTHER -> Settle(call, TryCatch(outcome, Null), Null, ended)

\* The calls of the location service.
RequestPermissions == Locate("requestPermissions", <<>>, "requestForegroundPermissionsAsync")

CheckLocationPermission ==
    Locate("checkLocationPermission", <<>>, "getForegroundPermissionsAsync")

GetCurrentLocation ==
    Locate("getCurrentLocation", <<>>, FirstAwait(hasPermission, "getCurrentLocation"))

ReverseGeocode == Locate("reverseGeocode", <<>>, FirstAwait(hasPermission, "reverseGeocode"))

GetLocationName(latitude, longitude) ==
    Locate("getLocationName", <<latitude, longitude>>,
           FirstAwait(hasPermission, "getLocationName"))

WatchPosition(errorCallback) ==
    Locate("watchPosition", <<errorCallback>>, FirstAwait(hasPermission, "watchPosition"))

\* requestForegroundPermissionsAsync or getForegroundPermissionsAsync answers:
\* requestPermissions() or checkLocationPermission() writes hasPermission and
\* returns, to its caller or into the await of the method that called it.
PermissionAnswered(call, answer) ==
    /\ locating[call].pc \in {"requestForegroundPermissionsAsync",
                               "getForegroundPermissionsAsync"}
    /\ hasPermission' = requestPermissions(hasPermission, answer).hasPermission
    /\ LET returns == Return(Bool(requestPermissions(hasPermission, answer).returns))
       IN  IF locating[call].op \in {"requestPermissions", "checkLocationPermission"}
           THEN Settle(call, returns, Null, "answered")
           ELSE Await(call, "requestPermissions", returns, "none")
    /\ UNCHANGED <<locates, watching>>
    /\ UNCHANGED databaseVars

\* The method resumes after `await this.requestPermissions()`: it throws when
\* permission was not granted, and calls the provider otherwise.
PermissionGranted(call) ==
    /\ locating[call].pc = "requestPermissions"
    /\ IF locating[call].awaited.value = Bool(TRUE)
       THEN Await(call, Provider(locating[call].op), Return(Null), "none")
       ELSE EndOfTry(call, Throw("Location permission not granted"), "refused")
    /\ UNCHANGED <<hasPermission, locates, watching>>
    /\ UNCHANGED databaseVars

\* How a provider call ended.
Ended(outcome) == IF outcome.threw THEN "failed" ELSE "answered"

\* getCurrentPositionAsync answers.
PositionAnswered(call, position) ==
    /\ locating[call].pc = "getCurrentPositionAsync"
    /\ EndOfTry(call, getCurrentLocation(position), Ended(getCurrentLocation(position)))
    /\ UNCHANGED <<hasPermission, locates, watching>>
    /\ UNCHANGED databaseVars

\* reverseGeocodeAsync answers.
GeocodeAnswered(call, geocode) ==
    /\ locating[call].pc = "reverseGeocodeAsync"
    /\ EndOfTry(call, reverseGeocode(geocode), Ended(reverseGeocode(geocode)))
    /\ UNCHANGED <<hasPermission, locates, watching>>
    /\ UNCHANGED databaseVars

\* getLocationName() resumes with the address reverseGeocode() returned.
LocationNamed(call) ==
    /\ locating[call].pc = "reverseGeocode"
    /\ Settle(call,
              getLocationName(locating[call].args[1], locating[call].args[2],
                              locating[call].awaited),
              Null, locating[call].ended)
    /\ UNCHANGED <<hasPermission, locates, watching>>
    /\ UNCHANGED databaseVars

\* watchPositionAsync answers.
WatchAnswered(call, watch) ==
    /\ locating[call].pc = "watchPositionAsync"
    /\ EndOfTry(call, watchPosition(watch), Ended(watchPosition(watch)))
    /\ watching' = IF watch = "subscription" THEN watching + 1 ELSE watching
    /\ UNCHANGED <<hasPermission, locates>>
    /\ UNCHANGED databaseVars

\* The provider hands a position to the callback given to watchPositionAsync:
\* the caller's callback receives the LocationData.
PositionWatched(coords) ==
    /\ watching > 0 \/ \E call \in DOMAIN locating : locating[call].pc = "watchPositionAsync"
    /\ located' = [op |-> "callback", args |-> <<>>, threw |-> FALSE,
                   value |-> LocationDataOf(coords), error |-> Null, ended |-> "answered"]
    /\ UNCHANGED <<hasPermission, locating, locates, watching>>
    /\ UNCHANGED databaseVars

\* The function watchPosition returned is called: `subscription.remove()`.
SubscriptionRemoved ==
    /\ watching > 0
    /\ watching' = watching - 1
    /\ UNCHANGED <<hasPermission, located, locating, locates>>
    /\ UNCHANGED databaseVars

(***************************************************************************)
(* The service from construction: db is null, fishlog.db has no tables.    *)
(* Whether the connection enforces foreign keys is the default of the      *)
(* SQLite build (initialize() issues no PRAGMA foreign_keys).              *)
(***************************************************************************)
Init ==
    /\ db = NoHandle
    /\ initPc = <<>>
    /\ initDone = FALSE
    /\ schema = {}
    /\ foreignKeys \in BOOLEAN
    /\ store = EmptyStore
    /\ seq = ZeroSeq
    /\ clock = 0
    /\ inits = 0
    /\ calls = 0
    /\ last = NoCall
    /\ hasPermission = FALSE
    /\ located = NoLocationCall
    /\ locating = <<>>
    /\ locates = 0
    /\ watching = 0
    /\ tripStats = <<>>

Next ==
    \/ InitializeCall
    \/ \E call \in DOMAIN initPc : OpenDatabase(call)
    \/ \E call \in DOMAIN initPc : OpenDatabaseFails(call)
    \/ \E call \in DOMAIN initPc : CreateTablesStep(call)
    \/ \E call \in DOMAIN initPc : CreateTablesStepFails(call)
    \/ \E trip \in CoreTrips : CreateTrip(trip)
    \/ \E id \in IdsFor(TripsTable), u \in CoreTripUpdates : UpdateTrip(id, u)
    \/ \E id \in IdsFor(TripsTable) : DeleteTrip(id)
    \/ \E t \in IdsFor(TripsTable) : CreateCatch(CatchFull(t))
    \/ \E id \in IdsFor(CatchesTable), u \in CoreCatchUpdates : UpdateCatch(id, u)
    \/ \E id \in IdsFor(CatchesTable) : DeleteCatch(id)
    \/ CreateLocation(LocationPier)
    \/ \E op \in OneQueryReads : Read(op)
    \/ GetTripStatsCall
    \/ \E call \in DOMAIN tripStats : TotalTripsQuery(call)
    \/ \E call \in DOMAIN tripStats : TotalCatchesQuery(call)
    \/ \E call \in DOMAIN tripStats : FavoriteSpeciesQuery(call)
    \/ \E call \in DOMAIN tripStats : TripStatsReturn(call)

Spec == Init /\ [][Next]_vars

(***************************************************************************)
(* The service after one successful initialize(), exercised with the full  *)
(* range of create and update arguments.                                   *)
(***************************************************************************)
InitReady ==
    /\ db = 1
    /\ initPc = <<"settled">>
    /\ initDone = TRUE
    /\ schema = TableNames \cup {"indexes"}
    /\ foreignKeys \in BOOLEAN
    /\ store = EmptyStore
    /\ seq = ZeroSeq
    /\ clock = 0
    /\ inits = 1
    /\ calls = 0
    /\ last = Resolved("initialize", 0)
    /\ hasPermission = FALSE
    /\ located = NoLocationCall
    /\ locating = <<>>
    /\ locates = 0
    /\ watching = 0
    /\ tripStats = <<>>

NextFields ==
    \/ Tick
    \/ \E trip \in AllTrips : CreateTrip(trip)
    \/ \E id \in IdsFor(TripsTable), u \in AllTripUpdates : UpdateTrip(id, u)
    \/ \E t \in IdsFor(TripsTable) : CreateCatch(CatchFull(t)) \/ CreateCatch(CatchFalsy(t))
    \/ \E id \in IdsFor(CatchesTable), u \in AllCatchUpdates : UpdateCatch(id, u)

SpecFields == InitReady /\ [][NextFields]_vars

(***************************************************************************)
(* The service after one successful initialize() and with no initialize()  *)
(* in flight: creates, updates, deletes and reads of rows.                 *)
(***************************************************************************)
NextRows ==
    \/ Tick
    \/ \E trip \in CoreTrips : CreateTrip(trip)
    \/ \E id \in IdsFor(TripsTable), u \in CoreTripUpdates : UpdateTrip(id, u)
    \/ \E id \in IdsFor(TripsTable) : DeleteTrip(id)
    \/ \E t \in IdsFor(TripsTable) : CreateCatch(CatchFull(t))
    \/ \E id \in IdsFor(CatchesTable), u \in CoreCatchUpdates : UpdateCatch(id, u)
    \/ \E id \in IdsFor(CatchesTable) : DeleteCatch(id)
    \/ CreateLocation(LocationPier)
    \/ \E op \in OneQueryReads : Read(op)

SpecRows == InitReady /\ [][NextRows]_vars

(***************************************************************************)
(* The service from construction, with repeated initialize() calls around  *)
(* the creation of a trip, a catch and a location, all at one clock value.  *)
(***************************************************************************)
NextInit ==
    \/ InitializeCall
    \/ \E call \in DOMAIN initPc : OpenDatabase(call)
    \/ \E call \in DOMAIN initPc : OpenDatabaseFails(call)
    \/ \E call \in DOMAIN initPc : CreateTablesStep(call)
    \/ \E call \in DOMAIN initPc : CreateTablesStepFails(call)
    \/ CreateTrip(TripFull)
    \/ CreateCatch(CatchFull(1))
    \/ CreateLocation(LocationPier)
    \/ \E op \in OneQueryReads : Read(op)

SpecInit == Init /\ [][NextInit]_vars

(***************************************************************************)
(* The trips list: trips saved by the new-trip screen, moved and deleted.   *)
(***************************************************************************)
NextTrips ==
    \/ \E trip \in SavedTrips : CreateTrip(trip)
    \/ \E id \in IdsFor(TripsTable) : UpdateTrip(id, TripMoved)
    \/ \E id \in IdsFor(TripsTable) : DeleteTrip(id)
    \/ Read("getTrips")

SpecTrips == InitReady /\ [][NextTrips]_vars

(***************************************************************************)
(* The catch lists: catches of two kinds logged, edited and deleted while   *)
(* the clock runs.                                                         *)
(***************************************************************************)
ListedCatchUpdates == {CatchRenamed, CatchZeros, CatchRetimed}

NextCatches ==
    \/ Tick
    \/ CreateTrip(TripFull)
    \/ \E t \in IdsFor(TripsTable) : CreateCatch(CatchFull(t)) \/ CreateCatch(CatchEarly(t))
    \/ \E id \in IdsFor(CatchesTable), u \in ListedCatchUpdates : UpdateCatch(id, u)
    \/ \E id \in IdsFor(CatchesTable) : DeleteCatch(id)
    \/ \E op \in {"getCatchesByTripId", "getAllCatches"} : Read(op)

SpecCatches == InitReady /\ [][NextCatches]_vars

(***************************************************************************)
(* The boolean columns: catches logged as released or kept and edited,     *)
(* locations saved as favorite or not, all at one clock value.             *)
(***************************************************************************)
FlagCatchUpdates == {NoCatchUpdates, CatchRenamed, CatchZeros}

NextFlags ==
    \/ CreateTrip(TripFull)
    \/ \E t \in IdsFor(TripsTable) : CreateCatch(CatchFull(t)) \/ CreateCatch(CatchEarly(t))
    \/ \E id \in IdsFor(CatchesTable), u \in FlagCatchUpdates : UpdateCatch(id, u)
    \/ CreateLocation(LocationPier)
    \/ CreateLocation(LocationDock)
    \/ \E op \in {"getCatchesByTripId", "getAllCatches", "getLocations"} : Read(op)

SpecFlags == InitReady /\ [][NextFlags]_vars

(***************************************************************************)
(* The statistics: trips and catches of three species names created,       *)
(* renamed and deleted, all at one clock value.                            *)
(***************************************************************************)
NextStats ==
    \/ CreateTrip(TripFull)
    \/ \E id \in IdsFor(TripsTable) : DeleteTrip(id)
    \/ \E t \in IdsFor(TripsTable) :
          CreateCatch(CatchFull(t)) \/ CreateCatch(CatchEarly(t)) \/ CreateCatch(CatchUnnamed(t))
    \/ \E id \in IdsFor(CatchesTable) : UpdateCatch(id, CatchRenamed)
    \/ \E id \in IdsFor(CatchesTable) : DeleteCatch(id)
    \/ Read("getSpeciesStats")
    \/ GetTripStatsCall
    \/ \E call \in DOMAIN tripStats : TotalTripsQuery(call)
    \/ \E call \in DOMAIN tripStats : TotalCatchesQuery(call)
    \/ \E call \in DOMAIN tripStats : FavoriteSpeciesQuery(call)
    \/ \E call \in DOMAIN tripStats : TripStatsReturn(call)

SpecStats == InitReady /\ [][NextStats]_vars

\* loadDashboardData calls getTripStats() while trips and catches are
\* created and deleted.
NextSnapshot ==
    \/ GetTripStatsCall
    \/ \E call \in DOMAIN tripStats : TotalTripsQuery(call)
    \/ \E call \in DOMAIN tripStats : TotalCatchesQuery(call)
    \/ \E call \in DOMAIN tripStats : FavoriteSpeciesQuery(call)
    \/ \E call \in DOMAIN tripStats : TripStatsReturn(call)
    \/ CreateTrip(TripFull)
    \/ \E id \in IdsFor(TripsTable) : DeleteTrip(id)
    \/ \E t \in IdsFor(TripsTable) : CreateCatch(CatchFull(t)) \/ CreateCatch(CatchEarly(t))
    \/ \E id \in IdsFor(CatchesTable) : DeleteCatch(id)

SpecSnapshot == InitReady /\ [][NextSnapshot]_vars

\* The trip list and the catch list are read page by page while trips and
\* catches are logged.
NextPaging ==
    \/ \E trip \in SavedTrips : CreateTrip(trip)
    \/ \E t \in IdsFor(TripsTable) : CreateCatch(CatchFull(t)) \/ CreateCatch(CatchEarly(t))
    \/ \E id \in IdsFor(CatchesTable) : DeleteCatch(id)
    \/ \E op \in {"getTrips", "getAllCatches"} : Read(op)

SpecPaging == InitReady /\ [][NextPaging]_vars

(***************************************************************************)
(* The mandatory trip fields: trips created with and without them, and     *)
(* updates that try to empty them.                                         *)
(***************************************************************************)
TripMandatory == {"date", "startTime", "locationName"}
IncompleteTrips == {TripNoDate, TripNoStartTime, TripNoLocationName, TripNullDate}
MandatoryTripUpdates == {TripEmptyMandatory, TripNullMandatory, TripMoved}

NextRequired ==
    \/ Tick
    \/ \E trip \in {TripFull} \cup IncompleteTrips : CreateTrip(trip)
    \/ \E id \in IdsFor(TripsTable), u \in MandatoryTripUpdates : UpdateTrip(id, u)
    \/ \E id \in IdsFor(TripsTable) : DeleteTrip(id)

SpecRequired == InitReady /\ [][NextRequired]_vars

(***************************************************************************)
(* The location service with a provider that may refuse, fail or answer.   *)
(***************************************************************************)
NextLocation ==
    \/ RequestPermissions
    \/ CheckLocationPermission
    \/ GetCurrentLocation
    \/ ReverseGeocode
    \/ \E latitude \in Latitudes, longitude \in Longitudes : GetLocationName(latitude, longitude)
    \/ \E errorCallback \in BOOLEAN : WatchPosition(errorCallback)
    \/ \E call \in DOMAIN locating, answer \in PermissionAnswers :
          PermissionAnswered(call, answer)
    \/ \E call \in DOMAIN locating : PermissionGranted(call)
    \/ \E call \in DOMAIN locating, position \in PositionAnswers :
          PositionAnswered(call, position)
    \/ \E call \in DOMAIN locating, geocode \in GeocodeAnswers : GeocodeAnswered(call, geocode)
    \/ \E call \in DOMAIN locating : LocationNamed(call)
    \/ \E call \in DOMAIN locating, watch \in WatchAnswers : WatchAnswered(call, watch)
    \/ \E coords \in PositionCoords : PositionWatched(coords)
    \/ SubscriptionRemoved

SpecLocation == Init /\ [][NextLocation]_vars

(***************************************************************************)
(* Properties.                                                             *)
(***************************************************************************)
WriteOps == {"createTrip", "updateTrip", "deleteTrip", "createCatch", "updateCatch",
             "deleteCatch", "createLocation"}

\* C1: every CRUD or statistics call issued before the first successful
\* initialize() has completed is rejected with 'Database not initialized' and
\* the stored data is untouched, also after an initialize() that failed.
C1_RejectedBeforeInitialized ==
    ~initDone =>
        /\ last.op \in WriteOps \cup ReadOps => last = Rejected(last.op, NotInitialized)
        /\ store = EmptyStore
        /\ seq = ZeroSeq

\* C2: when deleteTrip(id) of a stored trip has completed, the trip is gone, no catch with that
\* tripId is left (getCatchesByTripId(id) is empty, getAllCatches() has none of
\* them), and the catches of other trips are unchanged.
C2_DeleteTripCascades ==
    [][\A id \in IdsFor(TripsTable) :
          (DeleteTrip(id) /\ last'.ok /\ id \in RowIds(TripsTable)) =>
              /\ RowWithId(store'[TripsTable], id) = Null
              /\ CatchesWhereTrip(store'[CatchesTable], id) = {}
              /\ store'[CatchesTable] \ CatchesWhereTrip(store'[CatchesTable], id)
                    = store[CatchesTable] \ CatchesWhereTrip(store[CatchesTable], id)]_vars

\* C3: every stored catch has the id of a stored trip as its tripId.
C3_CatchHasTrip ==
    \A c \in store[CatchesTable] : c["tripId"].n \in RowIds(TripsTable)

\* C4: createCatch with a tripId that is the id of no stored trip is rejected,
\* returns no id and leaves the catches unchanged.
C4_CreateCatchNeedsTrip ==
    [][\A t \in IdsFor(TripsTable) :
          (CreateCatch(CatchFull(t)) /\ t \notin RowIds(TripsTable)) =>
              /\ ~last'.ok
              /\ last'.ret = 0
              /\ store'[CatchesTable] = store[CatchesTable]]_vars

TripDataFields == TripCols \ {"id", "createdAt", "updatedAt"}
TripNullable == {"endTime", "latitude", "longitude", "weather", "temperature", "notes"}
CatchDataFields == CatchCols \ {"id", "tripId", "createdAt", "updatedAt"}

\* C5: getTripById(createTrip(data)) returns a trip in which every field supplied
\* in data has the supplied value (falsy values included) and createdAt = updatedAt.
C5_CreateTripRoundTrips ==
    [][\A trip \in AllTrips :
          (CreateTrip(trip) /\ last'.ok) =>
              LET row == RowWithId(store'[TripsTable], last'.ret)
              IN  /\ row # Null
                  /\ \A f \in DOMAIN trip : trip[f] # Undefined => row[f] = trip[f]
                  /\ row["createdAt"] = row["updatedAt"]]_vars

\* C6: getTripById returns the last-written state of each trip: the values stored
\* at creation, overridden field by field by the latest update that supplied the
\* field; creating or updating one trip changes nothing read for another trip.
C6_LastWrittenState ==
    [][/\ \A trip \in AllTrips :
             (CreateTrip(trip) /\ last'.ok) =>
                 /\ RowWithId(store'[TripsTable], last'.ret) # Null
                 /\ store[TripsTable] \subseteq store'[TripsTable]
       /\ \A id \in IdsFor(TripsTable), u \in AllTripUpdates :
             (UpdateTrip(id, u) /\ id \in RowIds(TripsTable)) =>
                 /\ \A f \in TripDataFields :
                       RowWithId(store'[TripsTable], id)[f]
                          = IF u[f] # Undefined THEN u[f] ELSE getTripById(id)[f]
                 /\ \A r \in store[TripsTable] :
                       r["id"].n # id => r \in store'[TripsTable]]_vars

\* C7: updateTrip and updateCatch change only the target row, and of it only
\* columns of fields supplied in the partial, and updatedAt: a field not supplied
\* keeps its value, and id, createdAt and a catch's tripId never change, even when
\* the partial contains them.  No row is added or removed.
C7_UpdateFrame ==
    [][/\ \A id \in IdsFor(TripsTable), u \in AllTripUpdates :
             UpdateTrip(id, u) =>
                 /\ RowIds(TripsTable)' = RowIds(TripsTable)
                 /\ store'[CatchesTable] = store[CatchesTable]
                 /\ \A r \in store[TripsTable], c \in TripCols :
                       (\/ r["id"].n # id
                        \/ c \in {"id", "createdAt"}
                        \/ (c # "updatedAt" /\ u[c] = Undefined))
                       => RowWithId(store'[TripsTable], r["id"].n)[c] = r[c]
       /\ \A id \in IdsFor(CatchesTable), u \in AllCatchUpdates :
             UpdateCatch(id, u) =>
                 /\ RowIds(CatchesTable)' = RowIds(CatchesTable)
                 /\ store'[TripsTable] = store[TripsTable]
                 /\ \A r \in store[CatchesTable], c \in CatchCols :
                       (\/ r["id"].n # id
                        \/ c \in {"id", "tripId", "createdAt"}
                        \/ (c # "updatedAt" /\ u[c] = Undefined))
                       => RowWithId(store'[CatchesTable], r["id"].n)[c] = r[c]]_vars

\* Witness of C7: an updateCatch has renamed a catch of a stored trip at a later
\* time than its creation, and the fields it did not supply are as created.
C7_Witness ==
    /\ last = Resolved("updateCatch", 0)
    /\ \E c \in store[CatchesTable] :
          /\ c["species"] = Str("Pike")
          /\ c["length"] = Num(30)
          /\ c["time"] = Str("09:00")
          /\ c["tripId"].n \in RowIds(TripsTable)
          /\ c["updatedAt"].n > c["createdAt"].n

\* C8: updateTrip and updateCatch write every recognized field that is present
\* in the partial, the mandatory fields (date, startTime, locationName, species,
\* time) included when supplied empty: no supplied value is dropped.
C8_PresenceNotTruthiness ==
    [][/\ \A id \in IdsFor(TripsTable), u \in AllTripUpdates :
             (UpdateTrip(id, u) /\ id \in RowIds(TripsTable)) =>
                 \A f \in TripDataFields :
                    u[f] # Undefined => RowWithId(store'[TripsTable], id)[f] = u[f]
       /\ \A id \in IdsFor(CatchesTable), u \in AllCatchUpdates :
             (UpdateCatch(id, u) /\ id \in RowIds(CatchesTable)) =>
                 \A f \in CatchDataFields :
                    u[f] # Undefined =>
                       RowWithId(store'[CatchesTable], id)[f]
                          = IF f = "released" THEN OneOrZero(u[f]) ELSE u[f]]_vars

\* C9: updateTrip(id, {temperature: 0}) on a stored trip persists 0 (getTripById
\* then returns temperature 0), and a nullable field updated to null is stored
\* as null.
C9_ZeroAndNullPersist ==
    [][\A id \in IdsFor(TripsTable), u \in AllTripUpdates :
          (UpdateTrip(id, u) /\ id \in RowIds(TripsTable)) =>
              /\ u["temperature"] = Num(0)
                    => RowWithId(store'[TripsTable], id)["temperature"] = Num(0)
              /\ \A f \in TripNullable :
                    u[f] = Null => RowWithId(store'[TripsTable], id)[f] = Null]_vars

\* C10: a successful updateTrip or updateCatch of a stored row sets its updatedAt
\* to the time of the call, whatever the partial holds (the empty partial too);
\* updatedAt never decreases and is never earlier than createdAt.
C10_UpdatedAtRefreshed ==
    /\ [](\A t \in {TripsTable, CatchesTable} : \A r \in store[t] :
             r["updatedAt"].n >= r["createdAt"].n)
    /\ [][/\ \A id \in IdsFor(TripsTable), u \in AllTripUpdates :
                (UpdateTrip(id, u) /\ last'.ok /\ id \in RowIds(TripsTable)) =>
                    RowWithId(store'[TripsTable], id)["updatedAt"] = Num(clock)
          /\ \A id \in IdsFor(CatchesTable), u \in AllCatchUpdates :
                (UpdateCatch(id, u) /\ last'.ok /\ id \in RowIds(CatchesTable)) =>
                    RowWithId(store'[CatchesTable], id)["updatedAt"] = Num(clock)
          /\ \A t \in {TripsTable, CatchesTable} : \A r \in store[t] :
                r["id"].n \in RowIds(t)' =>
                    RowWithId(store'[t], r["id"].n)["updatedAt"].n >= r["updatedAt"].n]_vars

\* Witness of C9: an updateTrip has stored temperature 0 in a trip whose other
\* fields are as created.
C9_Witness ==
    /\ last = Resolved("updateTrip", 0)
    /\ \E r \in store[TripsTable] :
          /\ r["temperature"] = Num(0)
          /\ r["endTime"] = Str("17:00")

\* Witness of C10: an updateTrip that changed no data field (the empty partial's
\* effect) has refreshed updatedAt of a trip created at an earlier time.
C10_Witness ==
    /\ last = Resolved("updateTrip", 0)
    /\ \E r \in store[TripsTable] :
          /\ r["updatedAt"].n = clock
          /\ r["updatedAt"].n > r["createdAt"].n
          /\ \A f \in TripDataFields : r[f] = TripFull[f]


\* The create call of each table.
CreateOpOf(table) ==
    CASE table = TripsTable -> "createTrip"
      [] table = CatchesTable -> "createCatch"
      [] OTHER -> "createLocation"

\* C11: the id a create call returns differs from every id the same table has
\* returned before, deleted rows included.  seq[t] is the largest id table t has
\* ever assigned: every stored id is at most seq[t], seq[t] never decreases, and
\* a create call that resolves returns an id above it, which becomes seq[t].
C11_IdsNeverReused ==
    /\ [](\A t \in TableNames : RowIds(t) \subseteq 1 .. seq[t])
    /\ [][\A t \in TableNames :
            /\ seq'[t] >= seq[t]
            /\ (calls' = calls + 1 /\ last'.ok /\ last'.op = CreateOpOf(t))
                  => /\ last'.ret > seq[t]
                     /\ seq'[t] = last'.ret
                     /\ {r["id"].n : r \in store'[t]} = RowIds(t) \cup {last'.ret}]_vars

\* A trip was created, deleted, and a second trip then got the id 2.
C11_Witness ==
    /\ last = Resolved("createTrip", 2)
    /\ RowIds(TripsTable) = {2}
    /\ seq[TripsTable] = 2


\* The errors with which the store itself fails an open or a statement.
StoreFailures == {"open failed", "exec failed"}

\* C12: initialize() is idempotent.  Once one initialize() has resolved, every
\* step of a further initialize() (a step that moves initPc) leaves the schema, the rows and the id
\* counters as they are, every read has the outcome it had before the step, the
\* handle stays set, and a call that settles rejects only if the store itself
\* fails the open or a statement; otherwise it resolves.
C12_InitializeIdempotent ==
    [][(initDone /\ initPc' # initPc)
         => /\ schema' = schema
            /\ store' = store
            /\ seq' = seq
            /\ initDone'
            /\ (db # NoHandle => db' # NoHandle)
            /\ (db' # NoHandle => \A op \in ReadOps : ReadOutcome(op)' = Resolved(op, 0))
            /\ (\E call \in InFlight : initPc'[call] = "settled")
                  => \/ last' = Resolved("initialize", 0)
                     \/ last'.op = "initialize" /\ ~last'.ok /\ last'.err \in StoreFailures]_vars

\* A second initialize() has run up to its last statement over a stored trip,
\* catch and location.
C12_Witness ==
    /\ initDone
    /\ inits = 2
    /\ db = 2
    /\ initPc = <<"settled", "indexes">>
    /\ \A t \in TableNames : store[t] # {}


\* The hour of the day a start time written by formatTime stands for.
StartHour(v) == CHOOSE hour \in 0 .. 23 : formatTime(hour, 0) = v.s

\* Trip a is to come no later than trip b in the trips list: a later date, or
\* the same date and a start time that is not earlier.
LaterTripFirst(a, b) ==
    \/ SqlLess(b["date"], a["date"])
    \/ a["date"] = b["date"] /\ StartHour(a["startTime"]) >= StartHour(b["startTime"])

\* C13: getTrips() returns every stored trip exactly once, by date descending
\* and, among trips of one date, the later start time first.
C13_GetTripsOrdered ==
    \A scan \in Scans(store[TripsTable]) :
        LET list == getTrips(scan, Undefined, Undefined)
        IN  /\ Len(list) = Cardinality(store[TripsTable])
            /\ {list[i] : i \in DOMAIN list} = store[TripsTable]
            /\ \A i, j \in DOMAIN list : i < j => LaterTripFirst(list[i], list[j])


\* The page of `list` that skips the first `offset` elements and takes at most
\* `limit` of the rest.
PageOf(list, limit, offset) ==
    LET rest == IF Len(list) > offset THEN Len(list) - offset ELSE 0
        size == IF rest > limit THEN limit ELSE rest
    IN  [i \in 1 .. size |-> list[offset + i]]

\* C14: for limit >= 1 and offset >= 0, getTrips(limit, offset) is the page of
\* the sorted getTrips() list that skips `offset` trips and takes at most
\* `limit`; with limit absent every trip is returned whatever the offset.
C14_GetTripsPage ==
    \A scan \in Scans(store[TripsTable]) :
        LET all == getTrips(scan, Undefined, Undefined)
        IN  /\ \A limit \in 1 .. MaxPage, offset \in 0 .. MaxPage :
                  getTrips(scan, Num(limit), Num(offset)) = PageOf(all, limit, offset)
            /\ \A limit \in 1 .. MaxPage :
                  getTrips(scan, Num(limit), Undefined) = PageOf(all, limit, 0)
            /\ \A offset \in 0 .. MaxPage : getTrips(scan, Undefined, Num(offset)) = all

\* getTrips was called over three stored trips, of which getTrips(2, 1)
\* returns the second and the third.
C14_Witness ==
    /\ last = Resolved("getTrips", 0)
    /\ Cardinality(store[TripsTable]) = 3
    /\ \E scan \in Scans(store[TripsTable]) :
          LET all == getTrips(scan, Undefined, Undefined)
          IN  /\ getTrips(scan, Num(2), Num(1)) = <<all[2], all[3]>>
              /\ all[1] # all[2]


\* C15: getCatchesByTripId(tripId) returns exactly the stored catches of that
\* trip, each once, by their time field ascending.
C15_CatchesOfTrip ==
    \A tripId \in IdsFor(TripsTable), scan \in Scans(store[CatchesTable]) :
        LET list == getCatchesByTripId(scan, tripId)
            mine == {r \in store[CatchesTable] : r["tripId"] = Num(tripId)}
        IN  /\ Len(list) = Cardinality(mine)
            /\ \A r \in mine : \E i \in DOMAIN list :
                  \A c \in CatchCols \ {"released"} : list[i][c] = r[c]
            /\ \A i, j \in DOMAIN list :
                  i < j => ~SqlLess(list[j]["time"], list[i]["time"])

\* getCatchesByTripId was called for a trip whose later catch was logged
\* before its earlier catch: the list has the catch with the higher id first.
C15_Witness ==
    /\ last = Resolved("getCatchesByTripId", 0)
    /\ \E scan \in Scans(store[CatchesTable]) :
          LET list == getCatchesByTripId(scan, 1)
          IN  /\ Len(list) = 2
              /\ list[1]["id"].n > list[2]["id"].n
              /\ list[1]["time"] # list[2]["time"]


\* C16: getAllCatches() returns every stored catch once, by createdAt
\* descending: a catch created by a later createCatch call (a higher id) with a
\* larger createdAt comes before the earlier one, whatever their time fields and
\* whatever updateCatch calls came after.
C16_AllCatchesNewestFirst ==
    \A scan \in Scans(store[CatchesTable]) :
        LET list == getAllCatches(scan, Undefined, Undefined)
        IN  /\ Len(list) = Cardinality(store[CatchesTable])
            /\ {list[i]["id"] : i \in DOMAIN list} = {r["id"] : r \in store[CatchesTable]}
            /\ \A i, j \in DOMAIN list :
                  /\ i < j => ~SqlLess(list[i]["createdAt"], list[j]["createdAt"])
                  /\ (/\ list[i]["id"].n > list[j]["id"].n
                      /\ SqlLess(list[j]["createdAt"], list[i]["createdAt"])) => i < j

\* getAllCatches was called when the catch logged last has the earlier time of
\* day: it is listed first.
C16_Witness ==
    /\ last = Resolved("getAllCatches", 0)
    /\ \E scan \in Scans(store[CatchesTable]) :
          LET list == getAllCatches(scan, Undefined, Undefined)
          IN  /\ Len(list) = 2
              /\ list[1]["id"].n > list[2]["id"].n
              /\ SqlLess(list[2]["createdAt"], list[1]["createdAt"])
              /\ SqlLess(list[1]["time"], list[2]["time"])


\* The element with that id of a result list.
ElementWithId(list, id) == list[CHOOSE i \in DOMAIN list : list[i]["id"].n = id]

\* What getAllCatches() returns as the released flag of the catch `id` of `rows`.
ReleasedRead(rows, id) ==
    ElementWithId(getAllCatches(CHOOSE scan \in Scans(rows) : TRUE, Undefined, Undefined),
                  id)["released"]

\* C17: getCatchesByTripId and getAllCatches return released as true or false,
\* never the stored 0/1, and the same in both; it is the value createCatch wrote,
\* or the last updateCatch that supplied released, and an updateCatch that did
\* not supply it, or any other call, leaves it.  getLocations returns isFavorite
\* as the boolean createLocation was given.
C17_FlagsAreBooleans ==
    /\ [](/\ \A scan \in Scans(store[CatchesTable]) :
               LET all == getAllCatches(scan, Undefined, Undefined)
               IN  \A i \in DOMAIN all :
                      /\ all[i]["released"] \in {Bool(TRUE), Bool(FALSE)}
                      /\ \A tripId \in IdsFor(TripsTable) :
                            LET mine == getCatchesByTripId(scan, tripId)
                            IN  \A j \in DOMAIN mine :
                                   mine[j]["id"] = all[i]["id"]
                                     => mine[j]["released"] = all[i]["released"]
          /\ \A scan \in Scans(store[LocationsTable]), only \in {Undefined, Bool(TRUE)} :
               LET list == getLocations(scan, only)
               IN  \A i \in DOMAIN list : list[i]["isFavorite"] \in {Bool(TRUE), Bool(FALSE)})
    /\ [][/\ \A t \in IdsFor(TripsTable) : \A c \in {CatchFull(t), CatchEarly(t)} :
                (CreateCatch(c) /\ last'.ok)
                  => ReleasedRead(store'[CatchesTable], last'.ret) = c["released"]
          /\ \A id \in RowIds(CatchesTable), u \in FlagCatchUpdates :
                (UpdateCatch(id, u) /\ last'.ok)
                  => ReleasedRead(store'[CatchesTable], id) =
                        IF u["released"] # Undefined THEN u["released"]
                        ELSE ReleasedRead(store[CatchesTable], id)
          /\ \A id \in RowIds(CatchesTable) :
                (/\ id \in {r["id"].n : r \in store'[CatchesTable]}
                 /\ \A u \in FlagCatchUpdates : ~UpdateCatch(id, u))
                  => ReleasedRead(store'[CatchesTable], id) = ReleasedRead(store[CatchesTable], id)
          /\ \A l \in {LocationPier, LocationDock} :
                (CreateLocation(l) /\ last'.ok)
                  => \A scan \in Scans(store'[LocationsTable]) :
                        ElementWithId(getLocations(scan, Undefined), last'.ret)["isFavorite"]
                          = l["isFavorite"]]_vars

\* A catch created as not released was then updated with released true, and
\* reads back as true.
C17_Witness ==
    /\ last = Resolved("updateCatch", 0)
    /\ \E r \in store[CatchesTable] :
          /\ r["species"] = Str("Pike")
          /\ r["time"] = Str("07:00")
          /\ r["released"] = Num(1)
          /\ ReleasedRead(store[CatchesTable], r["id"].n) = Bool(TRUE)


\* C18: with no write between its queries, getTripStats() returns totalTrips
\* = the number of stored trips, totalCatches = the number of stored catches,
\* and avgCatchesPerTrip = totalCatches / totalTrips when there is a trip and 0
\* otherwise; on an empty store it returns 0, 0, 0 and null.  A call during
\* which the store has stayed as it is returns such a value.
C18_TripStatsCounts ==
    /\ \A call \in Returning :
          tripStats[call].seen = {store}
            => \E scan \in Scans(store[CatchesTable]) : TripStatsValue(call) = getTripStats(scan)
    /\ \A scan \in Scans(store[CatchesTable]) :
           LET stats == getTripStats(scan)
               trips == Cardinality(store[TripsTable])
               catches == Cardinality(store[CatchesTable])
           IN  /\ stats.totalTrips = Num(trips)
               /\ stats.totalCatches = Num(catches)
               /\ stats.avgCatchesPerTrip.den > 0
               /\ trips > 0 => stats.avgCatchesPerTrip.num * trips
                                 = catches * stats.avgCatchesPerTrip.den
               /\ trips = 0 => stats.avgCatchesPerTrip = ZeroQuotient
               /\ (trips = 0 /\ catches = 0)
                    => stats = [totalTrips |-> Num(0), totalCatches |-> Num(0),
                                avgCatchesPerTrip |-> ZeroQuotient, favoriteSpecies |-> Null]

\* getTripStats was called over one trip and one catch, with no other call
\* between its queries, and is about to return 1, 1 and the average 1.
C18_Witness ==
    /\ Returning = {1}
    /\ tripStats[1].seen = {store}
    /\ Cardinality(store[TripsTable]) = 1
    /\ Cardinality(store[CatchesTable]) = 1
    /\ TripStatsValue(1).totalTrips = Num(1)
    /\ TripStatsValue(1).totalCatches = Num(1)
    /\ TripStatsValue(1).avgCatchesPerTrip = [num |-> 1, den |-> 1]
    /\ \E scan \in Scans(store[CatchesTable]) : TripStatsValue(1) = getTripStats(scan)


\* The number of stored catches of a species.
CatchCount(species) == Cardinality({r \in store[CatchesTable] : r["species"] = species})

\* C19: getTripStats().favoriteSpecies is null if and only if no catch is
\* stored; otherwise it is the species of a stored catch, with at least as many
\* catches as every other species.  Stated for stores in which every catch has
\* its trip.
C19_FavoriteSpecies ==
    (\A r \in store[CatchesTable] : r["tripId"].n \in RowIds(TripsTable)) =>
        \A scan \in Scans(store[CatchesTable]) :
            LET favorite == getTripStats(scan).favoriteSpecies
            IN  /\ favorite = Null <=> store[CatchesTable] = {}
                /\ favorite # Null =>
                      /\ favorite.t = "string"
                      /\ CatchCount(favorite) > 0
                      /\ \A r \in store[CatchesTable] :
                            CatchCount(favorite) >= CatchCount(r["species"])

\* The counts of a species list, in its order.
CountsOf(list) == [i \in DOMAIN list |-> list[i]["count"].n]

\* C20: getSpeciesStats() has exactly one entry per species of the stored
\* catches, its count the number of stored catches of that species, in
\* non-increasing order of count.
C20_SpeciesStats ==
    \A scan \in Scans(store[CatchesTable]) :
        LET list == getSpeciesStats(scan)
            species == {r["species"] : r \in store[CatchesTable]}
        IN  /\ Len(list) = Cardinality(species)
            /\ {list[i]["species"] : i \in DOMAIN list} = species
            /\ \A i \in DOMAIN list : list[i]["count"] = Num(CatchCount(list[i]["species"]))
            /\ \A i, j \in DOMAIN list : i < j => CountsOf(list)[i] >= CountsOf(list)[j]

\* getSpeciesStats was called over two catches of one species and one of
\* another: the species with two comes first.
C20_Witness ==
    /\ last = Resolved("getSpeciesStats", 0)
    /\ \A scan \in Scans(store[CatchesTable]) :
          LET list == getSpeciesStats(scan)
          IN  /\ Len(list) = 2
              /\ CountsOf(list) = <<2, 1>>


\* The names of a locations list, in its order.
NamesOf(list) == [i \in DOMAIN list |-> list[i]["name"]]

\* `list` holds exactly the locations `rows`, each once, by name ascending.
ListsLocations(list, rows) ==
    /\ Len(list) = Cardinality(rows)
    /\ {list[i]["id"] : i \in DOMAIN list} = {r["id"] : r \in rows}
    /\ \A i, j \in DOMAIN list : i < j => ~SqlLess(NamesOf(list)[j], NamesOf(list)[i])

\* C21: getLocations(true) returns exactly the stored locations whose
\* isFavorite is true, getLocations() and getLocations(false) return every
\* stored location, and each result is ordered by name ascending.
C21_GetLocations ==
    \A scan \in Scans(store[LocationsTable]) :
        /\ ListsLocations(getLocations(scan, Bool(TRUE)),
                          {r \in store[LocationsTable] : r["isFavorite"] = Num(1)})
        /\ ListsLocations(getLocations(scan, Bool(FALSE)), store[LocationsTable])
        /\ ListsLocations(getLocations(scan, Undefined), store[LocationsTable])

\* getLocations was called after the favorite Pier and then the Dock were
\* saved: the full list is Dock, Pier and the favorites are the Pier alone.
C21_Witness ==
    /\ last = Resolved("getLocations", 0)
    /\ \A scan \in Scans(store[LocationsTable]) :
          /\ NamesOf(getLocations(scan, Undefined)) = <<Str("Dock"), Str("Pier")>>
          /\ getLocations(scan, Undefined)[1]["id"] = Num(2)
          /\ NamesOf(getLocations(scan, Bool(TRUE))) = <<Str("Pier")>>


\* The call resolved and left every row and id counter as it was.
ResolvedAsNoOp(op) ==
    /\ last' = Resolved(op, 0)
    /\ store' = store
    /\ seq' = seq

\* C22: deleteTrip, deleteCatch, updateTrip and updateCatch with an id that no
\* stored row has (never assigned, or deleted) resolve, create no row and leave
\* every trip, catch and location unchanged.
C22_MissingIdIsNoOp ==
    [][/\ \A id \in IdsFor(TripsTable) \ RowIds(TripsTable) :
             /\ DeleteTrip(id) => ResolvedAsNoOp("deleteTrip")
             /\ \A u \in CoreTripUpdates : UpdateTrip(id, u) => ResolvedAsNoOp("updateTrip")
       /\ \A id \in IdsFor(CatchesTable) \ RowIds(CatchesTable) :
             /\ DeleteCatch(id) => ResolvedAsNoOp("deleteCatch")
             /\ \A u \in CoreCatchUpdates : UpdateCatch(id, u) => ResolvedAsNoOp("updateCatch")]_vars

\* The second call after a createTrip was a deleteTrip that left trip 1 in
\* place and no id assigned beyond it: it named an id no trip has.
C22_Witness ==
    /\ last = Resolved("deleteTrip", 0)
    /\ calls = 2
    /\ RowIds(TripsTable) = {1}
    /\ seq[TripsTable] = 1


\* C23: getTripById(id) resolves with null whenever no stored trip has the id,
\* be it an id never assigned or the id of a deleted trip; for the id of a
\* stored trip it resolves with that trip.
C23_GetTripByIdNull ==
    /\ ReadOutcome("getTripById") = Resolved("getTripById", 0)
    /\ \A id \in IdsFor(TripsTable) :
          IF id \in RowIds(TripsTable)
          THEN getTripById(id) \in store[TripsTable] /\ getTripById(id)["id"] = Num(id)
          ELSE getTripById(id) = Null

\* getTripById was called when trip 1 had been deleted, trip 2 was stored and
\* id 3 was not assigned yet.
C23_Witness ==
    /\ last = Resolved("getTripById", 0)
    /\ RowIds(TripsTable) = {2}
    /\ seq[TripsTable] = 2
    /\ getTripById(1) = Null
    /\ getTripById(3) = Null


\* C24: createTrip without date, startTime or locationName is rejected with the
\* store's NOT NULL failure and inserts nothing: the trips, the other tables and
\* the id counters are as before.  Every stored trip has a non-null date,
\* startTime and locationName.
C24_MandatoryTripFields ==
    /\ [](\A r \in store[TripsTable], c \in TripMandatory : r[c].t \notin {"null", "undefined"})
    /\ [][\A trip \in IncompleteTrips :
             CreateTrip(trip) => /\ last' = Rejected("createTrip", NotNullFailed)
                                 /\ store' = store
                                 /\ seq' = seq]_vars

\* A createTrip was rejected for a missing field while trip 1 was stored.
C24_Witness ==
    /\ last = Rejected("createTrip", NotNullFailed)
    /\ RowIds(TripsTable) = {1}
    /\ seq[TripsTable] = 1


\* C25: the service holds one store handle: once an initialize() has resolved,
\* this.db is the same handle from then on, and a later initialize() neither
\* opens nor substitutes another.
C25_SingleHandle ==
    [][(initDone /\ db # NoHandle) => db' = db]_vars


\* C26: no call of getCurrentLocation, reverseGeocode or getLocationName has
\* thrown, neither to its caller nor into the await of getLocationName.  A
\* getCurrentLocation or reverseGeocode that ended because permission was not
\* granted or because the position or geocoding call failed has returned
\* null; getLocationName has returned a non-empty string, and after such an
\* ending the coordinate text of its arguments.
C26_LocationFailuresAreNull ==
    /\ located.op \in {"getCurrentLocation", "reverseGeocode", "getLocationName"}
          => ~located.threw
    /\ (located.op \in {"getCurrentLocation", "reverseGeocode"}
          /\ located.ended \in {"refused", "failed"})
          => located.value = Null
    /\ located.op = "getLocationName"
          => /\ located.value.t = "string"
             /\ located.value.s # ""
             /\ located.ended \in {"refused", "failed"}
                   => located.value = Str(CoordinateName(located.args[1], located.args[2]))
    /\ \A call \in DOMAIN locating :
          locating[call].pc = "reverseGeocode"
            => /\ ~locating[call].awaited.threw
               /\ locating[call].ended \in {"refused", "failed"}
                     => locating[call].awaited.value = Null

\* getLocationName(-33, -122) was called without permission, the permission
\* request was refused, and the call returned the coordinate text.
C26_Witness ==
    /\ ~hasPermission
    /\ located = [op |-> "getLocationName", args |-> <<-33, -122>>, threw |-> FALSE,
                  value |-> Str("-33.000000, -122.000000"), error |-> Null,
                  ended |-> "refused"]

\* C27: a CRUD or statistics call that completes while an initialize() is in
\* progress either fails with 'Database not initialized' or ran against a
\* store in which the three tables exist.
C27_GuardImpliesSchema ==
    [][(/\ InFlight # {}
        /\ initPc' = initPc
        /\ last' # last
        /\ last'.op \in WriteOps \cup ReadOps)
          => \/ last' = Rejected(last'.op, NotInitialized)
             \/ TableNames \subseteq schema]_vars

\* C28: what a getTripStats() call returns is what it returns from one
\* single store among those that existed during the call; in particular its
\* favoriteSpecies is non-null only if its totalCatches is positive.
C28_TripStatsSnapshot ==
    \A call \in Returning :
        /\ \E tables \in tripStats[call].seen : \E scan \in Scans(tables[CatchesTable]) :
              TripStatsValue(call) = TripStatsIn(tables, scan)
        /\ TripStatsValue(call).favoriteSpecies # Null => TripStatsValue(call).totalCatches.n > 0

\* The ids of the elements of a list.
IdsOf(list) == {list[i]["id"].n : i \in DOMAIN list}

\* C29: getTrips(0, k) and getAllCatches(0, k) return every stored row, as
\* the calls without limit do, whatever the offset k; and with a positive
\* limit an offset of 0 gives what no offset gives.
C29_ZeroLimitIsNoLimit ==
    /\ \A scan \in Scans(store[TripsTable]) :
          /\ \A k \in {Undefined} \cup {Num(o) : o \in 0 .. MaxPage} :
                /\ getTrips(scan, Num(0), k) = getTrips(scan, Undefined, Undefined)
                /\ Len(getTrips(scan, Num(0), k)) = Cardinality(store[TripsTable])
                /\ IdsOf(getTrips(scan, Num(0), k)) = RowIds(TripsTable)
          /\ \A limit \in 1 .. MaxPage :
                getTrips(scan, Num(limit), Num(0)) = getTrips(scan, Num(limit), Undefined)
    /\ \A scan \in Scans(store[CatchesTable]) :
          /\ \A k \in {Undefined} \cup {Num(o) : o \in 0 .. MaxPage} :
                /\ getAllCatches(scan, Num(0), k) = getAllCatches(scan, Undefined, Undefined)
                /\ Len(getAllCatches(scan, Num(0), k)) = Cardinality(store[CatchesTable])
                /\ IdsOf(getAllCatches(scan, Num(0), k)) = RowIds(CatchesTable)
          /\ \A limit \in 1 .. MaxPage :
                getAllCatches(scan, Num(limit), Num(0)) = getAllCatches(scan, Num(limit), Undefined)

\* getAllCatches was called over two stored catches of one trip:
\* getAllCatches(0, 1) returns both catches and getTrips(0, 1) the trip,
\* while getAllCatches(1, 1) returns one catch.
C29_Witness ==
    /\ last = Resolved("getAllCatches", 0)
    /\ Cardinality(store[CatchesTable]) = 2
    /\ Cardinality(store[TripsTable]) = 1
    /\ \E scan \in Scans(store[CatchesTable]) :
          /\ Len(getAllCatches(scan, Num(0), Num(1))) = 2
          /\ Len(getAllCatches(scan, Num(1), Num(1))) = 1
    /\ \E scan \in Scans(store[TripsTable]) : Len(getTrips(scan, Num(0), Num(1))) = 1

\* The sum of a list of numbers.
RECURSIVE SumOf(_)
SumOf(list) == IF list = <<>> THEN 0 ELSE list[1] + SumOf(Tail(list))

\* C30: in every store reached by create, update and delete calls, the counts
\* of getSpeciesStats() add up to getTripStats().totalCatches, and
\* getTripStats().favoriteSpecies, when non-null, is a species of
\* getSpeciesStats() whose count equals the count of its first entry.
C30_StatisticsAgree ==
    \A scanTrip, scanSpecies \in Scans(store[CatchesTable]) :
        LET stats == getTripStats(scanTrip)
            list == getSpeciesStats(scanSpecies)
        IN  /\ SumOf(CountsOf(list)) = stats.totalCatches.n
            /\ stats.favoriteSpecies # Null =>
                  \E i \in DOMAIN list :
                      /\ list[i]["species"] = stats.favoriteSpecies
                      /\ list[i]["count"] = list[1]["count"]

\* getTripStats was called over two catches of different species:
\* totalCatches is 2, and for some scans favoriteSpecies is not the species of
\* the first entry of getSpeciesStats, whose count it shares.
C30_Witness ==
    /\ last = Resolved("getTripStats", 0)
    /\ Cardinality(store[CatchesTable]) = 2
    /\ \E scanTrip, scanSpecies \in Scans(store[CatchesTable]) :
          LET stats == getTripStats(scanTrip)
              list == getSpeciesStats(scanSpecies)
          IN  /\ stats.totalCatches = Num(2)
              /\ Len(list) = 2
              /\ stats.favoriteSpecies # Null
              /\ stats.favoriteSpecies # list[1]["species"]

====
